---- MODULE Spec2Model ----
(***************************************************************************)
(* Model of the conversation evaluation engine                             *)
(* (src/src/evaluation/engine.py) together with the model collaborator     *)
(* (src/src/models/inference.py) and the text cleaner                      *)
(* (src/src/data/processor.py).                                            *)
(*                                                                         *)
(* The asyncio event loop runs one coroutine at a time: every action named *)
(* Task... or ...Evaluate... is the synchronous code between two           *)
(* suspension points of a coroutine.  The two thread pools (the model      *)
(* manager's single loader thread and the engine's judgment pool) run the  *)
(* blocking calls; their steps are the Loader... and Judge... actions.     *)
(*                                                                         *)
(* Confidences are kept in hundredths (0.8 is 80) and facet weights in     *)
(* tenths (1.3 is 13); values are exact fractions.                         *)
(***************************************************************************)
EXTENDS Integers, Sequences, FiniteSets, TLC

\* ------------------------------------------------------------------ bounds
MaxConversations == 2   \* longest conversation list of batch_evaluate
MaxModels == 2          \* longest model_names list
MaxFacets == 2          \* longest facet list of evaluate_conversation
MaxFanOutFacets == 1    \* longest facet list of the two fan-out operations
MaxClock == 1           \* number of whole seconds time.time() may advance
MaxCompared == 2        \* most models handed to compare_evaluations
MaxJudgments == 3       \* longest judgment list handed to the score calculators
MaxEvaluations == 2     \* most evaluations handed to _calculate_facet_statistics
MaxTextLen == 3         \* longest text handed to clean_conversation_text alone
MaxManagerCalls == 3    \* most calls made on a ModelManager taken alone
max_workers == 2        \* threads of the judgment pool, config['max_workers']

\* ------------------------------------------------------- program constants
MaxDigit == 9            \* largest value one \d can match
MinScore == 1
MaxScore == 5
DefaultScore == 3        \* neutral score of an unparsable or failed judgment

None == "None"
ModelNames == {"llama", "mistral"}
default_model == "llama"
Facets == {"grammar", "toxicity"}
FacetBatchSizes == {1, 2}      \* values of config['facet_batch_size'] tried

\* ---------------------------------------------------------------- helpers
Range(s) == {s[k] : k \in 1..Len(s)}

SeqsUpTo(S, n) == UNION {[1..k -> S] : k \in 0..n}

Min(a, b) == IF a < b THEN a ELSE b
Max(a, b) == IF a > b THEN a ELSE b

\* ----------------------------------------------------------- text cleaning
\* Characters: a space, two word characters, a sentence terminator, a kept
\* punctuation mark and a special character the cleaner removes.
IsSpace(c) == c = " "
IsKept(c) == c \in {" ", "a", "b", ".", ","}
IsTerminal(c) == c \in {".", "!", "?"}

RECURSIVE LStrip(_)
LStrip(s) == IF s # <<>> /\ IsSpace(Head(s)) THEN LStrip(Tail(s)) ELSE s

RECURSIVE RStrip(_)
RStrip(s) ==
    IF s # <<>> /\ IsSpace(s[Len(s)]) THEN RStrip(SubSeq(s, 1, Len(s) - 1)) ELSE s

Strip(s) == RStrip(LStrip(s))

\* re.sub(r'\s+', ' ', s): every run of whitespace becomes one space
RECURSIVE CollapseWhitespace(_)
CollapseWhitespace(s) ==
    IF s = <<>> THEN <<>>
    ELSE IF IsSpace(Head(s))
         THEN <<" ">> \o CollapseWhitespace(LStrip(s))
         ELSE <<Head(s)>> \o CollapseWhitespace(Tail(s))

\* re.sub(r'[^\w\s\.,!?;:\'\"-]', '', s)
RECURSIVE RemoveSpecial(_)
RemoveSpecial(s) ==
    IF s = <<>> THEN <<>>
    ELSE IF IsKept(Head(s))
         THEN <<Head(s)>> \o RemoveSpecial(Tail(s))
         ELSE RemoveSpecial(Tail(s))

EnsureSentenceEnding(s) ==
    IF s # <<>> /\ ~IsTerminal(s[Len(s)]) THEN s \o <<".">> ELSE s

clean_conversation_text(text) ==
    EnsureSentenceEnding(RemoveSpecial(CollapseWhitespace(Strip(text))))

\* Raw conversation texts handed to the engine
Texts == { <<" ", "a">>, <<"b", "#">> }

\* ------------------------------------------------- the model collaborator
\* What self.generate(prompt) does for one facet: it raises, or returns a
\* ModelOutput.  Of the generated text only what _parse_evaluation_output
\* reads is kept: the digit matched by  Score:\s*(\d)  (NoDigit when the
\* pattern does not match) and whether  Reasoning:  matches.
NoDigit == -1
Digits == 0..MaxDigit
GenRaises == [raises |-> TRUE, digit |-> NoDigit, reasoning |-> FALSE, confidence |-> 0]

EvaluationResult(facet, score, confidence, reasoning) ==
    [facet |-> facet, score |-> score, confidence |-> confidence,
     reasoning |-> reasoning]

\* the clamp without its lower limit
ClampScoreUpperOnly(score) == Min(MaxScore, score)

\* score = max(1, min(5, score))
ClampScore(score) == Max(MinScore, Min(MaxScore, score))

_parse_evaluation_output(facet, output) ==
    EvaluationResult(
        facet,
        IF output.digit # NoDigit THEN ClampScore(output.digit) ELSE DefaultScore,
        output.confidence,
        IF output.reasoning THEN "parsed" ELSE "Unable to parse evaluation")

\* The except branch of OpenWeightsModel.evaluate_conversation
ErrorResult(facet) ==
    EvaluationResult(facet, DefaultScore, 0, "Error during evaluation")

\* an evaluate_conversation whose except branch appends nothing
RECURSIVE ModelEvaluateConversationSkipping(_, _)
ModelEvaluateConversationSkipping(facet_list, outs) ==
    IF facet_list = <<>> THEN <<>>
    ELSE (IF Head(outs).raises
          THEN <<>>
          ELSE <<_parse_evaluation_output(Head(facet_list), Head(outs))>>)
         \o ModelEvaluateConversationSkipping(Tail(facet_list), Tail(outs))

\* OpenWeightsModel.evaluate_conversation(conversation, facets), where
\* outs[k] is what self.generate does for facets[k]
ModelEvaluateConversation(facet_list, outs) ==
    [k \in 1..Len(facet_list) |->
        IF outs[k].raises
        THEN ErrorResult(facet_list[k])
        ELSE _parse_evaluation_output(facet_list[k], outs[k])]

\* -------------------------------------------------------- exact fractions
\* A real number is a pair <<numerator, denominator>>, denominator > 0.
Frac(n, d) == <<n, d>>
FAdd(x, y) == <<x[1] * y[2] + y[1] * x[2], x[2] * y[2]>>
FDivInt(x, k) == <<x[1], x[2] * k>>
FLeq(x, y) == x[1] * y[2] <= y[1] * x[2]
FMin(x, y) == IF FLeq(x, y) THEN x ELSE y
FMax(x, y) == IF FLeq(x, y) THEN y ELSE x

RECURSIVE SumInts(_)
SumInts(s) == IF s = <<>> THEN 0 ELSE Head(s) + SumInts(Tail(s))

RECURSIVE SumFracs(_)
SumFracs(s) == IF s = <<>> THEN Frac(0, 1) ELSE FAdd(Head(s), SumFracs(Tail(s)))

\* ------------------------------------------------------- binary64 arithmetic
\* calculate_weighted_score multiplies, adds and divides Python floats.  A
\* natural number is the little-endian sequence of its digits in base Limb
\* (<<>> is 0); a non-negative float is [m, e] for m * 2^e, m of exactly
\* MantissaBits bits, or DZero.  Every operation rounds its exact result to
\* the nearest float, ties to the even mantissa.  The exponent is unbounded:
\* the values met here are far from overflow and underflow.
LimbBits == 13
Limb == 8192
MantissaBits == 53

\* The element of a one-element set.  The({e : x \in {a}}) is e with a
\* evaluated once, before e, and bound to x.
The(S) == CHOOSE r \in S : TRUE

DigitAt(a, i) == IF 1 <= i /\ i <= Len(a) THEN a[i] ELSE 0

\* a without its leading zero digits
Trim(a) ==
    LET used == {0} \cup {i \in 1..Len(a) : a[i] # 0}
    IN  SubSeq(a, 1, CHOOSE i \in used : \A j \in used : j <= i)

BigOfInt(n) == Trim(<<n % Limb, (n \div Limb) % Limb, n \div (Limb * Limb)>>)

\* the number whose digit i is worth v[i] < 2^30.  CarryOnce is one round of
\* carrying: every entry keeps its digit and takes the carry of the entry
\* below.  After three rounds the entries are at most Limb, and an entry
\* carries when an entry below it is Limb and every entry between is Limb - 1.
Carried(v) ==
    LET CarryOnce(w) ==
            SubSeq([i \in 1..(Len(w) + 1) |->
                       (DigitAt(w, i) % Limb) + (DigitAt(w, i - 1) \div Limb)],
                   1, Len(w) + 1)
        CarryRipple(w) ==
            LET carry(i) == \E j \in 1..(i - 1) :
                                /\ w[j] = Limb
                                /\ \A l \in (j + 1)..(i - 1) : w[l] = Limb - 1
            IN  Trim([i \in 1..(Len(w) + 1) |->
                         (DigitAt(w, i) + IF carry(i) THEN 1 ELSE 0) % Limb])
    IN  CarryRipple(CarryOnce(CarryOnce(CarryOnce(v))))

BigAdd(a, b) ==
    Carried([i \in 1..Max(Len(a), Len(b)) |-> DigitAt(a, i) + DigitAt(b, i)])

\* a - b for a >= b: digit i borrows when a digit below it is short and every
\* digit between is level
BigSub(a, b) ==
    LET borrow(i) == \E j \in 1..(i - 1) :
                         /\ a[j] < DigitAt(b, j)
                         /\ \A l \in (j + 1)..(i - 1) : a[l] = DigitAt(b, l)
    IN  Trim([i \in 1..Len(a) |->
                 (a[i] - DigitAt(b, i) - (IF borrow(i) THEN 1 ELSE 0) + Limb) % Limb])

BigLeq(a, b) ==
    \/ a = b
    \/ Len(a) < Len(b)
    \/ /\ Len(a) = Len(b)
       /\ \E i \in 1..Len(a) : /\ a[i] < b[i]
                                /\ \A l \in (i + 1)..Len(a) : a[l] = b[l]

\* a * b for b of at most five digits (a mantissa)
BigMul(a, b) ==
    Carried([k \in 1..(Len(a) + Len(b)) |->
                SumInts([j \in 1..Len(b) |-> b[j] * DigitAt(a, k + 1 - j)])])

BitLen(a) ==
    IF a = <<>> THEN 0
    ELSE LimbBits * (Len(a) - 1)
           + CHOOSE k \in 1..LimbBits : 2^(k - 1) <= a[Len(a)] /\ a[Len(a)] < 2^k

\* a * 2^k and floor(a / 2^k)
ShiftLeft(a, k) ==
    IF a = <<>> THEN <<>>
    ELSE [i \in 1..(k \div LimbBits) |-> 0] \o BigMul(a, <<2^(k % LimbBits)>>)

ShiftRight(a, k) ==
    LET kept == SubSeq(a, k \div LimbBits + 1, Len(a))
        low == 2^(k % LimbBits)
        high == 2^(LimbBits - (k % LimbBits))
    IN  Trim([i \in 1..Len(kept) |->
                 (kept[i] \div low) + (DigitAt(kept, i + 1) % low) * high])

\* <<floor(a / b), a mod b>> for b > 0, both shifted to bring the leading
\* digit of b to at least Limb / 2.  QuotientDigit is the next digit of the
\* long division by d and what it leaves of the running remainder
\* cur < d * Limb: the quotient of the leading digits is the digit or exceeds
\* it by at most 2.  DivFrom divides the digits n[1..i] of n, r being the
\* remainder the higher digits left: <<the i digits of the quotient,
\* remainder>>.
BigDivMod(a, b) ==
    LET Corrected(cur, d, estimate, product) ==
            IF BigLeq(product, cur) THEN <<estimate, BigSub(cur, product)>>
            ELSE IF BigLeq(BigSub(product, d), cur)
                 THEN <<estimate - 1, BigSub(cur, BigSub(product, d))>>
                 ELSE <<estimate - 2, BigSub(cur, BigSub(BigSub(product, d), d))>>
        QuotientDigit(cur, d) ==
            The({The({Corrected(cur, d, estimate, product) :
                         product \in {BigMul(d, BigOfInt(estimate))}}) :
                    estimate \in {Min((DigitAt(cur, Len(d) + 1) * Limb
                                          + DigitAt(cur, Len(d))) \div d[Len(d)],
                                      Limb - 1)}})
        RECURSIVE DivFrom(_, _, _, _)
        DivFrom(n, d, i, r) ==
            IF i = 0 THEN <<<<>>, r>>
            ELSE The({The({<<lower[1] \o <<step[1]>>, lower[2]>> :
                              lower \in {DivFrom(n, d, i - 1, step[2])}}) :
                         step \in {QuotientDigit(Trim(<<n[i]>> \o r), d)}})
        Divided(an, bn, shift, digits) ==
            The({<<Trim(qr[1]), ShiftRight(qr[2], shift)>> :
                    qr \in {DivFrom(an, bn, digits,
                                    Trim(SubSeq(an, digits + 1, Len(an))))}})
    IN  The({The({The({Divided(an, bn, shift, digits) :
                          digits \in {Max(Len(an) - Len(bn) + 1, 0)}}) :
                     an \in {ShiftLeft(a, shift)}, bn \in {ShiftLeft(b, shift)}}) :
                shift \in {LimbBits * Len(b) - BitLen(b)}})

DZero == [m |-> <<>>, e |-> 0]

\* the float nearest to n * 2^exp
DRound(n, exp) ==
    LET Normal(rounded, e) ==
            IF BitLen(rounded) > MantissaBits
            THEN [m |-> ShiftRight(rounded, 1), e |-> e + 1]
            ELSE [m |-> rounded, e |-> e]
        Up(m, rest, half) ==
            IF rest = half THEN m[1] % 2 = 1 ELSE BigLeq(half, rest)
        Nearest(nat, ex, k, m) ==
            The({The({Normal(rounded, ex + k) :
                         rounded \in {IF Up(m, rest, half)
                                      THEN BigAdd(m, <<1>>) ELSE m}}) :
                    rest \in {BigSub(nat, ShiftLeft(m, k))},
                    half \in {ShiftLeft(<<1>>, k - 1)}})
        RoundNat(nat, ex, k) ==
            IF nat = <<>> THEN DZero
            ELSE IF k <= 0 THEN [m |-> ShiftLeft(nat, -k), e |-> ex + k]
            ELSE The({Nearest(nat, ex, k, m) : m \in {ShiftRight(nat, k)}})
    IN  The({The({RoundNat(nat, ex, k) : k \in {BitLen(nat) - MantissaBits}}) :
                nat \in {n}, ex \in {exp}})

\* float(n) for an int n >= 0
DInt(n) == DRound(BigOfInt(n), 0)

DMul(u, v) == The({DRound(BigMul(a.m, b.m), a.e + b.e) : a \in {u}, b \in {v}})

DAdd(u, v) ==
    LET AddPositive(a, b) ==
            LET exp == Min(a.e, b.e)
            IN  DRound(BigAdd(ShiftLeft(a.m, a.e - exp), ShiftLeft(b.m, b.e - exp)), exp)
    IN  The({IF a = DZero THEN b ELSE IF b = DZero THEN a ELSE AddPositive(a, b) :
                a \in {u}, b \in {v}})

\* u / v for v > 0.  For u > 0 it rounds the quotient of the mantissas to
\* three bits more than a mantissa holds, its last bit set when the division
\* left a remainder.
DDiv(u, v) ==
    LET Sticky(qr) ==
            IF qr[2] # <<>> /\ qr[1][1] % 2 = 0 THEN BigAdd(qr[1], <<1>>) ELSE qr[1]
        DivPositive(a, b) ==
            The({The({DRound(Sticky(qr), a.e - b.e - (MantissaBits + 3)) :
                         qr \in {BigDivMod(n, d)}}) :
                    n \in {ShiftLeft(a.m, MantissaBits + 3)}, d \in {b.m}})
    IN  The({IF a = DZero THEN DZero ELSE DivPositive(a, b) : a \in {u}, b \in {v}})

DLeq(u, v) ==
    IF u = DZero THEN TRUE
    ELSE IF v = DZero THEN FALSE
    ELSE IF u.e # v.e THEN u.e < v.e ELSE BigLeq(u.m, v.m)

\* the float a decimal literal with the value num / den denotes
Double(num, den) == DDiv(DInt(num), DInt(den))

\* the floats of the weights (tenths) and of the confidences (hundredths)
MaxWeight == 20
WeightDoubles == SubSeq([i \in 1..(MaxWeight + 1) |-> Double(i - 1, 10)], 1, MaxWeight + 1)
ConfidenceDoubles == SubSeq([i \in 1..101 |-> Double(i - 1, 100)], 1, 101)

\* |u - num / den| <= 2^-ToleranceBits * num / den for a float u and the
\* quotient of two ints, num >= 0 and den > 0
ToleranceBits == 48

DNear(u, num, den) ==
    IF u = DZero THEN num = 0
    ELSE LET scale == Max(0, -u.e)
             scaled == ShiftLeft(BigMul(u.m, BigOfInt(den)), u.e + scale)
             exact == ShiftLeft(BigOfInt(num), scale)
             distance == IF BigLeq(exact, scaled) THEN BigSub(scaled, exact)
                         ELSE BigSub(exact, scaled)
         IN  BigLeq(ShiftLeft(distance, ToleranceBits), exact)

\* ------------------------------------------------------- the facet evaluator
\* a loader that gives every facet the weight 1.0
FacetWeight_unweighted(facet) == 10

\* _load_facet_weights: the default weights in tenths, 1.0 for any other facet
FacetWeight(facet) ==
    CASE facet \in {"grammar", "fluency", "sentiment"} -> 10
      [] facet \in {"coherence", "empathy"} -> 12
      [] facet = "vocabulary_richness" -> 8
      [] facet \in {"clarity", "context_understanding"} -> 13
      [] facet = "appropriateness" -> 15
      [] facet = "relevance" -> 14
      [] facet \in {"politeness", "emotional_appropriateness"} -> 11
      [] facet \in {"toxicity", "harmful_content", "hate_speech"} -> 20
      [] facet = "bias" -> 18
      [] OTHER -> 10

\* self.facet_weights[facet] once _load_facet_weights has put the weights of
\* config['facet_weights'] over the default ones
WeightOf(config_weights, facet) ==
    IF facet \in DOMAIN config_weights THEN config_weights[facet]
    ELSE FacetWeight(facet)

\* calculate_weighted_score(facet_results) of an evaluator built with
\* config['facet_weights'] = config_weights (weights >= 0)
RECURSIVE DSum(_)
DSum(s) == IF s = <<>> THEN DZero ELSE DAdd(DSum(SubSeq(s, 1, Len(s) - 1)), s[Len(s)])

calculate_weighted_score(facet_results, config_weights) ==
    IF facet_results = <<>> THEN DZero
    ELSE LET n == Len(facet_results)
             weight(k) ==
                 WeightDoubles[WeightOf(config_weights, facet_results[k].facet) + 1]
             confidence(k) == ConfidenceDoubles[facet_results[k].confidence + 1]
         IN  The({IF total_weight # DZero THEN DDiv(total_weighted_score, total_weight)
                  ELSE DZero :
                     total_weighted_score \in
                         {DSum([k \in 1..n |->
                                   DMul(DMul(DInt(facet_results[k].score), weight(k)),
                                        confidence(k))])},
                     total_weight \in
                         {DSum([k \in 1..n |-> DMul(weight(k), confidence(k))])}})

_get_facet_category(facet) ==
    CASE facet \in {"grammar", "coherence", "fluency", "vocabulary_richness",
                    "clarity"} -> "linguistic_quality"
      [] facet \in {"appropriateness", "relevance", "politeness",
                    "context_understanding"} -> "pragmatics"
      [] facet \in {"toxicity", "bias", "harmful_content", "hate_speech"} -> "safety"
      [] facet \in {"empathy", "sentiment", "emotional_appropriateness"} -> "emotion"
      [] OTHER -> "other"

Scores(results) == [k \in 1..Len(results) |-> results[k].score]

\* sum((s - mean)**2 for s in scores) / len(scores), for a non-empty list
Variance(scores) ==
    LET m == Len(scores)
        sq == [k \in 1..m |-> scores[k] * scores[k]]
    IN  Frac(m * SumInts(sq) - SumInts(scores) * SumInts(scores), m * m)

\* the scores of one category, in list order
RECURSIVE CategoryScores(_, _)
CategoryScores(results, category) ==
    IF results = <<>> THEN <<>>
    ELSE (IF _get_facet_category(Head(results).facet) = category
          THEN <<Head(results).score>> ELSE <<>>)
         \o CategoryScores(Tail(results), category)

\* max(0, 1 - variance / 4)
CategoryConsistency(scores) ==
    LET v == Variance(scores)
    IN  FMax(Frac(0, 1), Frac(4 * v[2] - v[1], 4 * v[2]))

Categories == {"linguistic_quality", "pragmatics", "safety", "emotion", "other"}

RECURSIVE SumConsistency(_, _)
SumConsistency(results, cats) ==
    IF cats = {} THEN Frac(0, 1)
    ELSE LET c == CHOOSE x \in cats : TRUE
         IN  FAdd(CategoryConsistency(CategoryScores(results, c)),
                  SumConsistency(results, cats \ {c}))

\* an analysis that counts a category of one member as fully consistent
analyze_facet_consistency_with_singletons(results) ==
    IF Len(results) < 2 THEN Frac(1, 1)
    ELSE LET multi == {c \in Categories : Len(CategoryScores(results, c)) > 0}
         IN  IF multi = {} THEN Frac(1, 1)
             ELSE FDivInt(SumConsistency(results, multi), Cardinality(multi))

analyze_facet_consistency(results) ==
    IF Len(results) < 2 THEN Frac(1, 1)
    ELSE LET multi == {c \in Categories : Len(CategoryScores(results, c)) > 1}
         IN  IF multi = {} THEN Frac(1, 1)
             ELSE FDivInt(SumConsistency(results, multi), Cardinality(multi))

\* ------------------------------------------------- the confidence calculator
\* the sample variance, divided by len(scores) - 1
_calculate_score_variance_of_sample(results) ==
    IF Len(results) < 2 THEN Frac(0, 1)
    ELSE LET v == Variance(Scores(results))
         IN  Frac(v[1], Len(results) * (Len(results) - 1))

_calculate_score_variance(results) ==
    IF Len(results) < 2 THEN Frac(0, 1) ELSE Variance(Scores(results))

\* a dataclass whose last two fields are declared in the other order
ConfidenceMetrics_reordered(overall, model, consistency, uncertainty) ==
    [overall_confidence |-> overall, model_confidence |-> model,
     consistency_score |-> uncertainty, uncertainty_estimate |-> consistency]

ConfidenceMetrics(overall, model, consistency, uncertainty) ==
    [overall_confidence |-> overall, model_confidence |-> model,
     consistency_score |-> consistency, uncertainty_estimate |-> uncertainty]

\* a calculator whose uncertainty estimate is not capped at 1.0
_calculate_confidence_metrics_uncapped(results) ==
    IF results = <<>>
    THEN ConfidenceMetrics(Frac(0, 1), Frac(0, 1), Frac(0, 1), Frac(1, 1))
    ELSE LET n == Len(results)
             confs == [k \in 1..n |-> results[k].confidence]
             weights == [k \in 1..n |-> FacetWeight(results[k].facet)]
             weighted == [k \in 1..n |-> confs[k] * weights[k]]
         IN  ConfidenceMetrics(
                 Frac(SumInts(confs), 100 * n),
                 Frac(SumInts(weighted), 100 * SumInts(weights)),
                 analyze_facet_consistency(results),
                 FDivInt(_calculate_score_variance(results), 2))

_calculate_confidence_metrics(results) ==
    IF results = <<>>
    THEN ConfidenceMetrics(Frac(0, 1), Frac(0, 1), Frac(0, 1), Frac(1, 1))
    ELSE LET n == Len(results)
             confs == [k \in 1..n |-> results[k].confidence]
             weights == [k \in 1..n |-> FacetWeight(results[k].facet)]
             weighted == [k \in 1..n |-> confs[k] * weights[k]]
         IN  ConfidenceMetrics(
                 Frac(SumInts(confs), 100 * n),
                 Frac(SumInts(weighted), 100 * SumInts(weights)),
                 analyze_facet_consistency(results),
                 FMin(Frac(1, 1), FDivInt(_calculate_score_variance(results), 2)))

\* ------------------------------------------------------ the evaluation engine
\* a split into one sub-batch per facet
FacetBatches_per_facet(facet_list, batch_size) ==
    [k \in 1..Len(facet_list) |-> <<facet_list[k]>>]

\* facet_batches = [facets[i:i + batch_size] for i in range(0, len(facets), batch_size)]
FacetBatches(facet_list, batch_size) ==
    LET n == Len(facet_list)
    IN  [k \in 1..((n + batch_size - 1) \div batch_size) |->
            SubSeq(facet_list, (k - 1) * batch_size + 1, Min(k * batch_size, n))]

\* a merge that keeps the first result of a facet
FacetScores_first_kept(results) ==
    [f \in {results[k].facet : k \in 1..Len(results)} |->
        LET first == CHOOSE k \in 1..Len(results) :
                         /\ results[k].facet = f
                         /\ \A j \in 1..(k - 1) : results[j].facet # f
        IN  results[first]]

\* {result.facet: result for result in facet_results}: the last result of a
\* facet is the one kept
FacetScores(results) ==
    [f \in {results[k].facet : k \in 1..Len(results)} |->
        LET last == CHOOSE k \in 1..Len(results) :
                        /\ results[k].facet = f
                        /\ \A j \in (k + 1)..Len(results) : results[j].facet # f
        IN  results[last]]

\* ConversationEvaluation; processing_time and timestamp are wall-clock floats
\* and are left out
ConversationEvaluation(conversation_id, conversation_text, results, model_used) ==
    [conversation_id |-> conversation_id,
     conversation_text |-> conversation_text,
     facet_scores |-> FacetScores(results),
     confidence_metrics |-> _calculate_confidence_metrics(results),
     model_used |-> model_used]

\* statistics that count an evaluation without the facet as a score of 0 with
\* confidence 0
FacetStatistics_zero_filled(evaluations, facet) ==
    LET n == Len(evaluations)
        has(k) == facet \in DOMAIN evaluations[k].facet_scores
        scores == [k \in 1..n |->
                      IF has(k) THEN evaluations[k].facet_scores[facet].score ELSE 0]
        confs == [k \in 1..n |->
                     IF has(k) THEN evaluations[k].facet_scores[facet].confidence ELSE 0]
    IN  [mean_score |-> Frac(SumInts(scores), n),
         min_score |-> CHOOSE x \in Range(scores) : \A y \in Range(scores) : x <= y,
         max_score |-> CHOOSE x \in Range(scores) : \A y \in Range(scores) : x >= y,
         score_variance |-> Variance(scores),
         mean_confidence |-> Frac(SumInts(confs), 100 * n),
         evaluation_count |-> n]

\* the entries of _calculate_facet_statistics for one facet; score_std is the
\* square root of score_variance
FacetStatistics(evaluations, facet) ==
    LET having == SelectSeq(evaluations, LAMBDA e : facet \in DOMAIN e.facet_scores)
        n == Len(having)
        scores == [k \in 1..n |-> having[k].facet_scores[facet].score]
        confs == [k \in 1..n |-> having[k].facet_scores[facet].confidence]
    IN  [mean_score |-> Frac(SumInts(scores), n),
         min_score |-> CHOOSE x \in Range(scores) : \A y \in Range(scores) : x <= y,
         max_score |-> CHOOSE x \in Range(scores) : \A y \in Range(scores) : x >= y,
         score_variance |-> Variance(scores),
         mean_confidence |-> Frac(SumInts(confs), 100 * n),
         evaluation_count |-> n]

_calculate_facet_statistics(evaluations, facet_list) ==
    LET present == {f \in Range(facet_list) :
                       \E k \in 1..Len(evaluations) :
                           f \in DOMAIN evaluations[k].facet_scores}
    IN  [f \in present |-> FacetStatistics(evaluations, f)]

BatchEvaluationResult(evaluations, facet_list) ==
    [evaluations |-> evaluations,
     average_confidence |->
         FDivInt(SumFracs([k \in 1..Len(evaluations) |->
                              evaluations[k].confidence_metrics.overall_confidence]),
                 Len(evaluations)),
     facet_statistics |-> _calculate_facet_statistics(evaluations, facet_list)]

\* ---------------------------------------------------------------- the state
VARIABLES
    pc,                 \* "idle", "awaiting" (inside the operation), "returned", "raised"
    op,                 \* the engine operation that was called
    conversations,      \* its conversation list (one element for the other two)
    facets,             \* its facet list
    model_names,        \* model_names of evaluate_with_multiple_models
    facet_batch_size,   \* config['facet_batch_size']
    task,               \* the evaluate_conversation coroutines, in creation order
    done_order,         \* the tasks that have finished, in completion order
    load_queue,         \* work queue of ModelManager.executor (one thread)
    loader,             \* the task whose load_model call that thread runs, or 0
    loader_hung,        \* that call never returns
    models,             \* ModelManager.models (the names cached)
    current_model,      \* ModelManager.current_model
    judge_queue,        \* work queue of the engine's executor
    judge_running,      \* the tasks whose judgment call a pool thread runs
    clock,              \* int(time.time())
    batch_result,       \* <<r>> once batch_evaluate returned r
    multi_result,       \* <<r>> once evaluate_with_multiple_models returned r
    error,              \* the exception the operation raised
    args,               \* the arguments of a call of a pure function
    ret,                \* <<r>> once that call returned r
    manager,            \* a ModelManager taken alone: models, current_model, queue
    thread,             \* what each thread is executing inside that ModelManager
    history             \* history: the calls made on it and what they gave

vars == <<pc, op, conversations, facets, model_names, facet_batch_size, task,
          done_order, load_queue, loader, loader_hung, models, current_model,
          judge_queue, judge_running, clock, batch_result, multi_result, error,
          args, ret, manager, thread, history>>

inputVars == <<conversations, facets, model_names, facet_batch_size, op>>
loaderVars == <<load_queue, loader, loader_hung, models, current_model>>
judgeVars == <<judge_queue, judge_running>>
resultVars == <<batch_result, multi_result>>
callVars == <<args, ret>>
managerVars == <<manager, thread, history>>

NoId == <<>>
Tasks == 1..Len(task)

\* A coroutine object made by calling evaluate_conversation(...)
NewTask(conversation, conversation_id, model_name) ==
    [conversation |-> conversation,
     conversation_id |-> conversation_id,
     model_name |-> model_name,
     stage |-> "START",             \* the last stage the coroutine reached
     path |-> <<"START">>,          \* history: the stages it went through
     clean_text |-> <<>>,
     model |-> None,
     load_future |-> "none",
     batch_no |-> 0,
     judge_future |-> <<>>,
     all_results |-> <<>>,
     submitted |-> <<>>,            \* history: the facets of each judgment call
     generated |-> <<>>,            \* history: what generate did, per judged facet
     evaluation |-> <<>>]

\* The threads that run code of the ModelManager: the single thread of its
\* executor, where load_model_async runs load_model, and a caller's thread
\* (the event loop for the unload endpoint of the API)
Threads == {"executor", "caller"}

\* the OpenWeightsModel objects: two constructions give two objects
Handle(model_name, serial) == [model_name |-> model_name, serial |-> serial]

\* None where a model object is expected
NoModel == Handle(None, 0)

IdleThread == [at |-> "idle", call |-> None, model_name |-> None, model |-> NoModel,
               before |-> <<>>]

Init ==
    /\ pc = "idle"
    /\ op = "none"
    /\ conversations = <<>>
    /\ facets = <<>>
    /\ model_names = <<>>
    /\ facet_batch_size \in FacetBatchSizes
    /\ task = <<>>
    /\ done_order = <<>>
    /\ load_queue = <<>>
    /\ loader = 0
    /\ loader_hung = FALSE
    /\ models = {}
    /\ current_model = None
    /\ judge_queue = <<>>
    /\ judge_running = {}
    /\ clock = 0
    /\ batch_result = <<>>
    /\ multi_result = <<>>
    /\ error = "none"
    /\ args = <<>>
    /\ ret = <<>>
    /\ manager = [models |-> <<>>, current_model |-> NoModel, queue |-> <<>>]
    /\ thread = [t \in Threads |-> IdleThread]
    /\ history = [started |-> 0, called |-> {}, overlapped |-> FALSE,
                  handles |-> {}, results |-> <<>>]

\* ------------------------------------------------------------ the operations
\* engine.evaluate_conversation awaited directly by a caller
EvaluateConversation(conversation, facet_list, conversation_id, model_name) ==
    /\ pc = "idle"
    /\ pc' = "awaiting"
    /\ op' = "evaluate_conversation"
    /\ conversations' = <<conversation>>
    /\ facets' = facet_list
    /\ task' = <<NewTask(conversation, conversation_id, model_name)>>
    /\ UNCHANGED <<model_names, facet_batch_size, done_order, loaderVars,
                   judgeVars, clock, callVars, managerVars, resultVars, error>>

\* batch_evaluate up to its  await asyncio.gather(*tasks) ; with no
\* conversation gather returns [] at once and the average divides by zero
BatchEvaluate(conversation_list, facet_list, model_name) ==
    /\ pc = "idle"
    /\ op' = "batch_evaluate"
    /\ conversations' = conversation_list
    /\ facets' = facet_list
    /\ task' = [i \in 1..Len(conversation_list) |->
                   NewTask(conversation_list[i], <<"batch_conv", i - 1>>, model_name)]
    /\ IF conversation_list = <<>>
       THEN pc' = "raised" /\ error' = "ZeroDivisionError"
       ELSE pc' = "awaiting" /\ error' = error
    /\ UNCHANGED <<model_names, facet_batch_size, done_order, loaderVars,
                   judgeVars, clock, callVars, managerVars, resultVars>>

\* {model_names[i]: evaluations[i] for i in range(len(model_names))}
ModelMapping(names, evaluations) ==
    [m \in Range(names) |->
        LET last == CHOOSE k \in 1..Len(names) :
                        /\ names[k] = m
                        /\ \A j \in (k + 1)..Len(names) : names[j] # m
        IN  evaluations[last]]

\* evaluate_with_multiple_models up to its  await asyncio.gather(*tasks)
EvaluateWithMultipleModels(conversation, facet_list, names) ==
    /\ pc = "idle"
    /\ op' = "evaluate_with_multiple_models"
    /\ conversations' = <<conversation>>
    /\ facets' = facet_list
    /\ model_names' = names
    /\ task' = [i \in 1..Len(names) |-> NewTask(conversation, NoId, names[i])]
    /\ IF names = <<>>
       THEN pc' = "returned" /\ multi_result' = <<ModelMapping(<<>>, <<>>)>>
       ELSE pc' = "awaiting" /\ multi_result' = multi_result
    /\ UNCHANGED <<facet_batch_size, done_order, loaderVars, judgeVars, clock, callVars, managerVars,
                   batch_result, error>>

\* ------------------------------------------------ one evaluate_conversation
\* The event loop runs ready callbacks first in, first out: the tasks made by
\* one gather take their first step in creation order, and no task is resumed
\* before all of them have.
AllStarted == \A j \in Tasks : task[j].stage # "START"

\* model_name or self.config.get('default_model')
ModelNameOf(t) == IF t.model_name = None THEN default_model ELSE t.model_name

\* conversation_id or f"conv_{int(time.time())}"
ConversationIdOf(t, now) ==
    IF t.conversation_id = NoId THEN <<"conv", now>> ELSE t.conversation_id

\* A direct caller continues in the step in which its coroutine finishes
CallerSees(outcome) ==
    IF op = "evaluate_conversation"
    THEN /\ pc' = outcome
         /\ error' = IF outcome = "raised" THEN "ModelLoadError" ELSE error
    ELSE UNCHANGED <<pc, error>>

\* evaluate_conversation from its first line to  await load_model_async(...)
TaskStart(i) ==
    /\ i \in Tasks
    /\ task[i].stage = "START"
    /\ \A j \in 1..(i - 1) : task[j].stage # "START"
    /\ task' = [task EXCEPT ![i].stage = "TEXT_PREPARED",
                            ![i].path = Append(@, "TEXT_PREPARED"),
                            ![i].conversation_id = ConversationIdOf(task[i], clock),
                            ![i].clean_text = clean_conversation_text(task[i].conversation),
                            ![i].load_future = "pending"]
    /\ load_queue' = Append(load_queue, i)
    /\ UNCHANGED <<pc, inputVars, done_order, loader, loader_hung, models,
                   current_model, judgeVars, clock, callVars, managerVars, resultVars, error>>

\* the stages gone through when the coroutine goes on after  await
\* load_model_async  (lines 229-231) or after a sub-batch
WithModel(t) ==
    IF t.stage = "TEXT_PREPARED" THEN Append(t.path, "MODEL_ACQUIRED") ELSE t.path

\* The remaining lines of evaluate_conversation once every sub-batch returned:
\* line 234 has its results, line 237 computes the metrics, lines 242-252
\* build and return the record
Assemble(i, results, handle) ==
    /\ task' = [task EXCEPT
                   ![i].stage = "RECORD_ASSEMBLED",
                   ![i].path = WithModel(task[i]) \o
                       <<"FACETS_JUDGED", "METRICS_COMPUTED", "RECORD_ASSEMBLED">>,
                   ![i].model = handle,
                   ![i].all_results = results,
                   ![i].judge_future = <<>>,
                   ![i].evaluation =
                       <<ConversationEvaluation(task[i].conversation_id,
                                                task[i].clean_text, results,
                                                handle)>>]
    /\ done_order' = Append(done_order, i)
    /\ CallerSees("returned")
    /\ UNCHANGED judgeVars

\* run_in_executor(self.executor, model.evaluate_conversation, conversation, batch)
SubmitBatch(i, results, handle) ==
    /\ task' = [task EXCEPT ![i].stage = "MODEL_ACQUIRED",
                            ![i].path = WithModel(task[i]),
                            ![i].model = handle,
                            ![i].all_results = results,
                            ![i].judge_future = <<>>,
                            ![i].batch_no = task[i].batch_no + 1,
                            ![i].submitted =
                                Append(task[i].submitted,
                                       FacetBatches(facets, facet_batch_size)
                                           [task[i].batch_no + 1])]
    /\ judge_queue' = Append(judge_queue, i)
    /\ UNCHANGED <<judge_running, done_order, pc, error>>

\* The task resumes with the model handle: _evaluate_facets_async splits the
\* facets and submits the first sub-batch, or has nothing to submit
TaskModelAcquired(i) ==
    /\ i \in Tasks
    /\ AllStarted
    /\ task[i].stage = "TEXT_PREPARED"
    /\ task[i].load_future = "ok"
    /\ IF FacetBatches(facets, facet_batch_size) = <<>>
       THEN Assemble(i, <<>>, ModelNameOf(task[i]))
       ELSE SubmitBatch(i, <<>>, ModelNameOf(task[i]))
    /\ UNCHANGED <<inputVars, loaderVars, clock, callVars, managerVars, resultVars>>

\* a task that turns the exception of load_model into an empty evaluation
TaskModelFailedDegraded(i) ==
    /\ i \in Tasks
    /\ AllStarted
    /\ task[i].stage = "TEXT_PREPARED"
    /\ task[i].load_future = "raised"
    /\ Assemble(i, <<>>, ModelNameOf(task[i]))
    /\ UNCHANGED <<inputVars, loaderVars, clock, callVars, managerVars, resultVars>>

\* The task resumes with the exception load_model raised and ends with it
TaskModelFailed(i) ==
    /\ i \in Tasks
    /\ AllStarted
    /\ task[i].stage = "TEXT_PREPARED"
    /\ task[i].load_future = "raised"
    /\ task' = [task EXCEPT ![i].stage = "FAILED"]
    /\ done_order' = Append(done_order, i)
    /\ CallerSees("raised")
    /\ UNCHANGED <<inputVars, loaderVars, judgeVars, clock, callVars, managerVars, resultVars>>

\* a task that goes on to the metrics when its first sub-batch returns
TaskJudgedAfterFirstBatch(i) ==
    /\ i \in Tasks
    /\ task[i].stage = "MODEL_ACQUIRED"
    /\ task[i].judge_future # <<>>
    /\ Assemble(i, task[i].all_results \o task[i].judge_future[1], task[i].model)
    /\ UNCHANGED <<inputVars, loaderVars, clock, callVars, managerVars, resultVars>>

\* The task resumes with the results of a sub-batch
TaskJudged(i) ==
    /\ i \in Tasks
    /\ task[i].stage = "MODEL_ACQUIRED"
    /\ task[i].judge_future # <<>>
    /\ LET results == task[i].all_results \o task[i].judge_future[1]
       IN  IF task[i].batch_no < Len(FacetBatches(facets, facet_batch_size))
           THEN SubmitBatch(i, results, task[i].model)
           ELSE Assemble(i, results, task[i].model)
    /\ UNCHANGED <<inputVars, loaderVars, clock, callVars, managerVars, resultVars>>

\* ------------------------------------------------------ the model manager
\* The single thread of ModelManager.executor takes the next load_model call
LoaderStart ==
    /\ loader = 0
    /\ load_queue # <<>>
    /\ loader' = Head(load_queue)
    /\ load_queue' = Tail(load_queue)
    /\ UNCHANGED <<pc, inputVars, task, done_order, loader_hung, models,
                   current_model, judgeVars, clock, callVars, managerVars, resultVars, error>>

\* load_model(model_name) on that thread.  A cached model is returned; else
\* OpenWeightsModel.load_model() returns ("ok"), raises, or never returns
LoadOutcomes == {"ok", "raise", "hang"}

\* an executor whose thread is not given back when a load_model call is over
LoaderFinishKeepingThread(outcome) ==
    /\ loader # 0
    /\ ~loader_hung
    /\ outcome = "ok"
    /\ task[loader].load_future = "pending"
    /\ task' = [task EXCEPT ![loader].load_future = "ok"]
    /\ models' = models \cup {ModelNameOf(task[loader])}
    /\ current_model' = ModelNameOf(task[loader])
    /\ UNCHANGED <<pc, inputVars, done_order, load_queue, loader, loader_hung, judgeVars,
                   clock, callVars, managerVars, resultVars, error>>

LoaderFinish(outcome) ==
    /\ loader # 0
    /\ ~loader_hung
    /\ LET name == ModelNameOf(task[loader])
       IN  IF name \in models
           THEN /\ outcome = "ok"
                /\ task' = [task EXCEPT ![loader].load_future = "ok"]
                /\ loader' = 0
                /\ UNCHANGED <<models, current_model, loader_hung>>
           ELSE CASE outcome = "ok" ->
                       /\ models' = models \cup {name}
                       /\ current_model' = name
                       /\ task' = [task EXCEPT ![loader].load_future = "ok"]
                       /\ loader' = 0
                       /\ UNCHANGED loader_hung
                  [] outcome = "raise" ->
                       /\ task' = [task EXCEPT ![loader].load_future = "raised"]
                       /\ loader' = 0
                       /\ UNCHANGED <<models, current_model, loader_hung>>
                  [] OTHER ->
                       /\ loader_hung' = TRUE
                       /\ UNCHANGED <<models, current_model, task, loader>>
    /\ UNCHANGED <<pc, inputVars, done_order, load_queue, judgeVars, clock, callVars, managerVars,
                   resultVars, error>>

\* ------------------------------------------------------ the judgment pool
\* A free thread of the engine's executor takes the next judgment call
JudgeStart ==
    /\ judge_queue # <<>>
    /\ Cardinality(judge_running) < max_workers
    /\ judge_running' = judge_running \cup {Head(judge_queue)}
    /\ judge_queue' = Tail(judge_queue)
    /\ UNCHANGED <<pc, inputVars, task, done_order, loaderVars, clock, callVars, managerVars,
                   resultVars, error>>

CurrentBatch(i) == FacetBatches(facets, facet_batch_size)[task[i].batch_no]

\* model.evaluate_conversation(conversation, batch) returns on its thread
JudgeFinish(i, outs) ==
    /\ i \in judge_running
    /\ DOMAIN outs = 1..Len(CurrentBatch(i))
    /\ judge_running' = judge_running \ {i}
    /\ task' = [task EXCEPT
                   ![i].judge_future = <<ModelEvaluateConversation(CurrentBatch(i), outs)>>,
                   ![i].generated = task[i].generated \o outs]
    /\ UNCHANGED <<pc, inputVars, done_order, loaderVars, judge_queue, clock, callVars, managerVars,
                   resultVars, error>>

\* ------------------------------------------------------------ asyncio.gather
Gathering == pc = "awaiting" /\ op # "evaluate_conversation"

\* a result list filled in the order the tasks finish
GatherResultsAsCompleted(ts, order) == [i \in 1..Len(ts) |-> ts[order[i]].evaluation[1]]

\* gather's result list: the tasks' results in the order the tasks were passed
GatherResults(ts, order) == [i \in 1..Len(ts) |-> ts[i].evaluation[1]]

\* Every task returned: the operation resumes with the result list
GatherReturn ==
    /\ Gathering
    /\ \A i \in Tasks : task[i].stage = "RECORD_ASSEMBLED"
    /\ pc' = "returned"
    /\ LET evaluations == GatherResults(task, done_order)
       IN  IF op = "batch_evaluate"
           THEN /\ batch_result' = <<BatchEvaluationResult(evaluations, facets)>>
                /\ UNCHANGED multi_result
           ELSE /\ multi_result' = <<ModelMapping(model_names, evaluations)>>
                /\ UNCHANGED batch_result
    /\ UNCHANGED <<inputVars, task, done_order, loaderVars, judgeVars, clock, callVars, managerVars, error>>

\* A task raised: gather (return_exceptions=False) hands the first exception
\* to the operation at once; the other tasks are not cancelled and go on
GatherRaise ==
    /\ Gathering
    /\ \E i \in Tasks : task[i].stage = "FAILED"
    /\ pc' = "raised"
    /\ error' = "ModelLoadError"
    /\ UNCHANGED <<inputVars, task, done_order, loaderVars, judgeVars, clock, callVars, managerVars,
                   resultVars>>

\* time passes; the clock is read only by a task that starts without an id
Tick ==
    /\ clock < MaxClock
    /\ \E i \in Tasks : task[i].stage = "START" /\ task[i].conversation_id = NoId
    /\ clock' = clock + 1
    /\ UNCHANGED <<pc, inputVars, task, done_order, loaderVars, judgeVars,
                   resultVars, error, callVars, managerVars>>

\* ------------------------------------------------------ the specifications
ConversationLists == SeqsUpTo(Texts, MaxConversations)
ModelNameLists == SeqsUpTo(ModelNames, MaxModels)
FanOutFacetLists == SeqsUpTo(Facets, MaxFanOutFacets)
FacetLists == SeqsUpTo(Facets, MaxFacets)
OptionalModelNames == {None, "mistral"}
OptionalIds == {NoId, <<"caller", 0>>}

\* what the generative model is let do in the fan-out specification
FanOutOutcomes ==
    {GenRaises,
     [raises |-> FALSE, digit |-> 9, reasoning |-> TRUE, confidence |-> 100]}

\* and in the specification of one evaluation: every digit with a reasoning
\* line, a digit alone, a reasoning line alone, neither, or an exception
Output(d, r, c) == [raises |-> FALSE, digit |-> d, reasoning |-> r, confidence |-> c]

EvalOutcomes ==
    {GenRaises} \cup {Output(d, TRUE, 100) : d \in Digits}
                \cup {Output(7, FALSE, 50), Output(NoDigit, TRUE, 50),
                      Output(NoDigit, FALSE, 50)}

\* Spec: one call of batch_evaluate or of evaluate_with_multiple_models
Next ==
    \/ \E cl \in ConversationLists, fl \in FanOutFacetLists, m \in OptionalModelNames :
           BatchEvaluate(cl, fl, m)
    \/ \E c \in Texts, fl \in FanOutFacetLists, ml \in ModelNameLists :
           EvaluateWithMultipleModels(c, fl, ml)
    \/ \E i \in Tasks : TaskStart(i)
    \/ \E i \in Tasks : TaskModelAcquired(i)
    \/ \E i \in Tasks : TaskModelFailed(i)
    \/ \E i \in Tasks : TaskJudged(i)
    \/ LoaderStart
    \/ \E o \in LoadOutcomes : LoaderFinish(o)
    \/ JudgeStart
    \/ \E i \in judge_running :
           \E outs \in [1..Len(CurrentBatch(i)) -> FanOutOutcomes] : JudgeFinish(i, outs)
    \/ GatherReturn
    \/ GatherRaise
    \/ Tick

Spec == Init /\ [][Next]_vars

\* SpecEval: one call of evaluate_conversation
NextEval ==
    \/ \E c \in Texts, fl \in FacetLists, id \in OptionalIds, m \in OptionalModelNames :
           EvaluateConversation(c, fl, id, m)
    \/ \E i \in Tasks : TaskStart(i)
    \/ \E i \in Tasks : TaskModelAcquired(i)
    \/ \E i \in Tasks : TaskModelFailed(i)
    \/ \E i \in Tasks : TaskJudged(i)
    \/ LoaderStart
    \/ \E o \in LoadOutcomes : LoaderFinish(o)
    \/ JudgeStart
    \/ \E i \in judge_running :
           \E outs \in [1..Len(CurrentBatch(i)) -> EvalOutcomes] : JudgeFinish(i, outs)
    \/ Tick

SpecEval == Init /\ [][NextEval]_vars

\* FairSpec: Spec where the event loop and the pool threads keep running: a
\* step that can be taken is eventually taken
FairSpec == Spec /\ WF_vars(Next)

\* ------------------------------------------------ the model manager, alone
\* A ModelManager whose methods are called from two threads, each statement
\* that reads or writes models or current_model being one step.  No method
\* takes a lock.
engineVars == <<pc, op, conversations, facets, model_names, facet_batch_size, task,
                done_order, load_queue, loader, loader_hung, models, current_model,
                judge_queue, judge_running, clock, batch_result, multi_result, error,
                args, ret>>

Without(cache, model_name) == [k \in DOMAIN cache \ {model_name} |-> cache[k]]

With_model(cache, model_name, model) ==
    [k \in DOMAIN cache \cup {model_name} |->
        IF k = model_name THEN model ELSE cache[k]]

Busy == \E t \in Threads : thread[t].at # "idle"

\* a call begins on thread t at the statement  at
Begin(t, call, model_name, at) ==
    thread' = [thread EXCEPT ![t] =
                  [at |-> at, call |-> call, model_name |-> model_name, model |-> NoModel,
                   before |-> <<[models |-> manager.models,
                                 current_model |-> manager.current_model]>>]]

Called(call, overlapping) ==
    history' = [history EXCEPT !.started = @ + 1,
                               !.called = @ \cup {call},
                               !.overlapped = @ \/ overlapping]

\* what a call gives: the value it returns or the exception it raises
Returns(value) == [raised |-> "none", value |-> value]
Raises(exception) == [raised |-> exception, value |-> NoModel]

\* the call of thread t ends with a result or an exception
Return(t, result, cache, current, handles) ==
    /\ thread' = [thread EXCEPT ![t] = IdleThread]
    /\ history' = [history EXCEPT
                      !.handles = handles,
                      !.results = Append(@,
                          [call |-> thread[t].call,
                           model_name |-> thread[t].model_name,
                           result |-> result,
                           before |-> thread[t].before[1],
                           models |-> cache,
                           current_model |-> current])]

\* load_model_async: run_in_executor(self.executor, self.load_model, model_name)
LoadModelAsync(model_name) ==
    /\ history.started < MaxManagerCalls
    /\ manager' = [manager EXCEPT !.queue = Append(@, model_name)]
    /\ Called("load_model_async", Busy \/ manager.queue # <<>>)
    /\ UNCHANGED <<thread, engineVars>>

\* the executor's thread takes the next load_model call of its queue
ExecutorTake ==
    /\ thread["executor"].at = "idle"
    /\ manager.queue # <<>>
    /\ manager' = [manager EXCEPT !.queue = Tail(@)]
    /\ Begin("executor", "load_model_async", Head(manager.queue), "load_check")
    /\ UNCHANGED <<history, engineVars>>

\* load_model, get_model or unload_model called on the caller's thread
Call(call, model_name) ==
    /\ history.started < MaxManagerCalls
    /\ thread["caller"].at = "idle"
    /\ Begin("caller", call, model_name,
             CASE call = "load_model" -> "load_check"
               [] call = "get_model" -> "get_check"
               [] call = "unload_model" -> "unload_check")
    /\ Called(call, Busy \/ manager.queue # <<>>)
    /\ UNCHANGED <<manager, engineVars>>

\* a load_model that does not look into the cache
LoadCheckUncached(t) ==
    /\ thread[t].at = "load_check"
    /\ thread' = [thread EXCEPT ![t].at = "load_construct"]
    /\ UNCHANGED <<manager, history, engineVars>>

\* load_model, line 333:  if model_name in self.models
LoadCheck(t) ==
    /\ thread[t].at = "load_check"
    /\ thread' = [thread EXCEPT ![t].at =
                     IF thread[t].model_name \in DOMAIN manager.models
                     THEN "load_read" ELSE "load_construct"]
    /\ UNCHANGED <<manager, history, engineVars>>

\* line 334:  return self.models[model_name]
LoadRead(t) ==
    /\ thread[t].at = "load_read"
    /\ Return(t, IF thread[t].model_name \in DOMAIN manager.models
                 THEN Returns(manager.models[thread[t].model_name])
                 ELSE Raises("KeyError"),
              manager.models, manager.current_model, history.handles)
    /\ UNCHANGED <<manager, engineVars>>

\* lines 337-340: the model object is made and its load_model() returns or
\* raises
LoadConstruct(t, outcome) ==
    /\ thread[t].at = "load_construct"
    /\ IF outcome = "ok"
       THEN LET model == Handle(thread[t].model_name,
                                Cardinality(history.handles) + 1)
            IN  /\ thread' = [thread EXCEPT ![t].at = "load_cache", ![t].model = model]
                /\ history' = [history EXCEPT !.handles = @ \cup {model}]
       ELSE Return(t, Raises("ModelLoadError"), manager.models, manager.current_model,
                   history.handles)
    /\ UNCHANGED <<manager, engineVars>>

\* line 343:  self.models[model_name] = model
LoadCache(t) ==
    /\ thread[t].at = "load_cache"
    /\ manager' = [manager EXCEPT
                      !.models = With_model(@, thread[t].model_name, thread[t].model)]
    /\ thread' = [thread EXCEPT ![t].at = "load_current"]
    /\ UNCHANGED <<history, engineVars>>

\* lines 344-346:  self.current_model = model ; return model
LoadCurrent(t) ==
    /\ thread[t].at = "load_current"
    /\ manager' = [manager EXCEPT !.current_model = thread[t].model]
    /\ Return(t, Returns(thread[t].model), manager.models, thread[t].model,
              history.handles)
    /\ UNCHANGED engineVars

\* get_model, lines 355-357 and 360-365: the tests that choose its branch
GetCheck(t) ==
    /\ thread[t].at = "get_check"
    /\ IF thread[t].model_name # None
       THEN /\ thread' = [thread EXCEPT ![t].at =
                             IF thread[t].model_name \notin DOMAIN manager.models
                             THEN "load_check" ELSE "get_read"]
            /\ UNCHANGED history
       ELSE IF manager.current_model # NoModel
            THEN Return(t, Returns(manager.current_model), manager.models,
                        manager.current_model, history.handles)
            ELSE /\ thread' = [thread EXCEPT ![t].at = "load_check",
                                             ![t].model_name = default_model]
                 /\ UNCHANGED history
    /\ UNCHANGED <<manager, engineVars>>

\* line 358:  return self.models[model_name]
GetRead(t) ==
    /\ thread[t].at = "get_read"
    /\ Return(t, IF thread[t].model_name \in DOMAIN manager.models
                 THEN Returns(manager.models[thread[t].model_name])
                 ELSE Raises("KeyError"),
              manager.models, manager.current_model, history.handles)
    /\ UNCHANGED <<manager, engineVars>>

\* unload_model, line 369:  if model_name in self.models
UnloadCheck(t) ==
    /\ thread[t].at = "unload_check"
    /\ IF thread[t].model_name \in DOMAIN manager.models
       THEN thread' = [thread EXCEPT ![t].at = "unload_del"] /\ UNCHANGED history
       ELSE Return(t, Returns(NoModel), manager.models, manager.current_model,
                   history.handles)
    /\ UNCHANGED <<manager, engineVars>>

\* line 370:  del self.models[model_name]
UnloadDel(t) ==
    /\ thread[t].at = "unload_del"
    /\ IF thread[t].model_name \in DOMAIN manager.models
       THEN /\ manager' = [manager EXCEPT !.models = Without(@, thread[t].model_name)]
            /\ thread' = [thread EXCEPT ![t].at = "unload_current"]
            /\ UNCHANGED history
       ELSE /\ Return(t, Raises("KeyError"), manager.models, manager.current_model,
                      history.handles)
            /\ UNCHANGED manager
    /\ UNCHANGED engineVars

\* an unload_model that clears current_model whatever it is
UnloadCurrentAlways(t) ==
    /\ thread[t].at = "unload_current"
    /\ manager' = [manager EXCEPT !.current_model = NoModel]
    /\ Return(t, Returns(NoModel), manager.models, NoModel, history.handles)
    /\ UNCHANGED engineVars

\* lines 372-380:  if self.current_model and self.current_model.model_name ==
\* model_name: self.current_model = None ; and the method returns
UnloadCurrent(t) ==
    /\ thread[t].at = "unload_current"
    /\ LET current == IF /\ manager.current_model # NoModel
                         /\ manager.current_model.model_name = thread[t].model_name
                      THEN NoModel ELSE manager.current_model
       IN  /\ manager' = [manager EXCEPT !.current_model = current]
           /\ Return(t, Returns(NoModel), manager.models, current, history.handles)
    /\ UNCHANGED engineVars

ManagerCalls == {"load_model", "get_model", "unload_model"}

\* SpecManager: up to MaxManagerCalls calls on one ModelManager
NextManager ==
    \/ \E model_name \in ModelNames : LoadModelAsync(model_name)
    \/ ExecutorTake
    \/ \E call \in ManagerCalls, model_name \in ModelNames \cup {None} :
           /\ model_name = None => call = "get_model"
           /\ Call(call, model_name)
    \/ \E t \in Threads : LoadCheck(t)
    \/ \E t \in Threads : LoadRead(t)
    \/ \E t \in Threads, outcome \in {"ok", "raise"} : LoadConstruct(t, outcome)
    \/ \E t \in Threads : LoadCache(t)
    \/ \E t \in Threads : LoadCurrent(t)
    \/ \E t \in Threads : GetCheck(t)
    \/ \E t \in Threads : GetRead(t)
    \/ \E t \in Threads : UnloadCheck(t)
    \/ \E t \in Threads : UnloadDel(t)
    \/ \E t \in Threads : UnloadCurrent(t)

SpecManager == Init /\ [][NextManager]_vars


\* --------------------------------------------------------- compare_evaluations
RECURSIVE SumOver(_, _)
SumOver(f, S) ==
    IF S = {} THEN 0
    ELSE LET x == CHOOSE y \in S : TRUE IN f[x] + SumOver(f, S \ {x})

\* a consensus that leaves the confidences out: the plain mean of the scores
Consensus_unweighted(facet_scores, facet_confidences) ==
    Frac(SumOver(facet_scores, DOMAIN facet_scores), Cardinality(DOMAIN facet_scores))

\* weighted_sum / weight_sum if weight_sum > 0 else sum(scores) / len(scores)
Consensus(facet_scores, facet_confidences) ==
    LET ms == DOMAIN facet_scores
        weighted_sum == SumOver([m \in ms |-> facet_scores[m] * facet_confidences[m]], ms)
        weight_sum == SumOver(facet_confidences, ms)
    IN  IF weight_sum > 0
        THEN Frac(weighted_sum, weight_sum)
        ELSE Frac(SumOver(facet_scores, ms), Cardinality(ms))

\* the same consensus as Python computes it in floats, for the scores and the
\* confidences in the order of the dictionary
consensus_as_float(scores, confidences) ==
    LET n == Len(scores)
        weighted_sum ==
            DSum([k \in 1..n |-> DMul(DInt(scores[k]), ConfidenceDoubles[confidences[k] + 1])])
        weight_sum == DSum([k \in 1..n |-> ConfidenceDoubles[confidences[k] + 1]])
    IN  IF weight_sum # DZero THEN DDiv(weighted_sum, weight_sum)
        ELSE DDiv(DInt(SumInts(scores)), DInt(n))

\* a comparison whose agreement divides the range by 5, the highest score
CompareFacet_by_highest_score(facet_scores, facet_confidences) ==
    LET ms == DOMAIN facet_scores
        hi == CHOOSE x \in {facet_scores[m] : m \in ms} :
                  \A m \in ms : facet_scores[m] <= x
        lo == CHOOSE x \in {facet_scores[m] : m \in ms} :
                  \A m \in ms : facet_scores[m] >= x
    IN  [agreement |-> FMax(Frac(0, 1), Frac(5 - (hi - lo), 5)),
         consensus |-> Consensus(facet_scores, facet_confidences)]

\* The comparison of one facet that at least two models scored; the models
\* that scored it are the keys of facet_scores
CompareFacet(facet_scores, facet_confidences) ==
    LET ms == DOMAIN facet_scores
        hi == CHOOSE x \in {facet_scores[m] : m \in ms} :
                  \A m \in ms : facet_scores[m] <= x
        lo == CHOOSE x \in {facet_scores[m] : m \in ms} :
                  \A m \in ms : facet_scores[m] >= x
    IN  [agreement |-> FMax(Frac(0, 1), Frac(4 - (hi - lo), 4)),
         consensus |-> Consensus(facet_scores, facet_confidences)]

InsufficientModels == [error |-> "Need at least 2 evaluations to compare"]

\* a comparison that keeps every facet some model scored
Comparison_of_any_facet(evaluations) ==
    LET all_facets == UNION {DOMAIN evaluations[m].facet_scores :
                                m \in DOMAIN evaluations}
        having(f) == {m \in DOMAIN evaluations :
                         f \in DOMAIN evaluations[m].facet_scores}
        scores(f) == [m \in having(f) |-> evaluations[m].facet_scores[f].score]
        confidences(f) ==
            [m \in having(f) |-> evaluations[m].facet_scores[f].confidence]
        compared == {f \in all_facets : Cardinality(having(f)) >= 1}
    IN  [model_agreements |->
             [f \in compared |-> CompareFacet(scores(f), confidences(f)).agreement],
         score_differences |-> [f \in compared |-> scores(f)],
         confidence_comparison |-> [f \in compared |-> confidences(f)],
         consensus_scores |->
             [f \in compared |-> CompareFacet(scores(f), confidences(f)).consensus]]

\* The comparison structure compare_evaluations builds
Comparison(evaluations) ==
    LET all_facets == UNION {DOMAIN evaluations[m].facet_scores :
                                m \in DOMAIN evaluations}
        having(f) == {m \in DOMAIN evaluations :
                         f \in DOMAIN evaluations[m].facet_scores}
        scores(f) == [m \in having(f) |-> evaluations[m].facet_scores[f].score]
        confidences(f) ==
            [m \in having(f) |-> evaluations[m].facet_scores[f].confidence]
        compared == {f \in all_facets : Cardinality(having(f)) >= 2}
    IN  [model_agreements |->
             [f \in compared |-> CompareFacet(scores(f), confidences(f)).agreement],
         score_differences |-> [f \in compared |-> scores(f)],
         confidence_comparison |-> [f \in compared |-> confidences(f)],
         consensus_scores |->
             [f \in compared |-> CompareFacet(scores(f), confidences(f)).consensus]]

\* a compare_evaluations without its length check
compare_evaluations_unchecked(evaluations) == Comparison(evaluations)

\* compare_evaluations(evaluations), evaluations a mapping from model names to
\* evaluations
compare_evaluations(evaluations) ==
    IF Cardinality(DOMAIN evaluations) < 2
    THEN InsufficientModels
    ELSE Comparison(evaluations)

\* SpecCompare: one call of compare_evaluations.  Its argument maps up to
\* MaxCompared models to evaluations, of which only facet_scores is read.
ComparedModels == {"llama", "mistral", "phi"}
ComparedScores == {1, 3, 5}
ComparedConfidences == {0, 10, 90}

ComparedJudgments(f) ==
    {EvaluationResult(f, sc, c, "parsed") : sc \in ComparedScores, c \in ComparedConfidences}

\* the facet_scores dictionaries over the facets of fs
FacetScoreMaps(fs) ==
    {fm \in [fs -> UNION {ComparedJudgments(f) : f \in fs}] :
        \A f \in fs : fm[f].facet = f}

ComparedEvaluations ==
    {[facet_scores |-> fm] : fm \in UNION {FacetScoreMaps(fs) : fs \in SUBSET Facets}}

ComparedModelSets == {ms \in SUBSET ComparedModels : Cardinality(ms) <= MaxCompared}

InitCompare ==
    /\ Init
    /\ facet_batch_size = 1

\* A call of compare_evaluations(evaluations) and its return
CompareEvaluations ==
    /\ pc = "idle"
    /\ \E ms \in ComparedModelSets :
           \E evaluations \in [ms -> ComparedEvaluations] :
               /\ args' = evaluations
               /\ ret' = <<compare_evaluations(evaluations)>>
    /\ pc' = "returned"
    /\ op' = "compare_evaluations"
    /\ UNCHANGED <<conversations, facets, model_names, facet_batch_size, task,
                   done_order, loaderVars, judgeVars, clock, resultVars, error,
                   managerVars>>

NextCompare == CompareEvaluations

SpecCompare == InitCompare /\ [][NextCompare]_vars

\* SpecWeighted: one call of calculate_weighted_score on a list of at most
\* MaxJudgments judgments, the evaluator built with or without a configured
\* weight (none, or toxicity at 0).  The judgments are those of the scenario (grammar 5 at 0.9, clarity
\* 4 at 0.8, toxicity 1 at 0.95), a neutral score and a failed facet.
WeightedJudgments ==
    {EvaluationResult("grammar", 5, 90, "parsed"),
     EvaluationResult("clarity", 4, 80, "parsed"),
     EvaluationResult("toxicity", 1, 95, "parsed"),
     EvaluationResult("grammar", DefaultScore, 80, "parsed"),
     ErrorResult("clarity")}

CalculateWeightedScore ==
    /\ pc = "idle"
    /\ \E n \in 0..MaxJudgments :
           \E facet_results \in [1..n -> WeightedJudgments],
              config_weights \in {<<>>, [f \in {"toxicity"} |-> 0]} :
               /\ args' = <<facet_results, config_weights>>
               /\ ret' = <<calculate_weighted_score(facet_results, config_weights)>>
    /\ pc' = "returned"
    /\ op' = "calculate_weighted_score"
    /\ UNCHANGED <<conversations, facets, model_names, facet_batch_size, task,
                   done_order, loaderVars, judgeVars, clock, resultVars, error,
                   managerVars>>

NextWeighted == CalculateWeightedScore

SpecWeighted == InitCompare /\ [][NextWeighted]_vars

\* SpecMetrics: one call of _calculate_confidence_metrics or of
\* analyze_facet_consistency on a list of at most MaxJudgments judgments
MetricsJudgments ==
    {EvaluationResult(f, sc, c, "parsed") :
        f \in {"grammar", "clarity", "toxicity"}, sc \in MinScore..MaxScore, c \in {0, 100}}

ConsistencyJudgments == {r \in MetricsJudgments : r.confidence = 100}

CalculateConfidenceMetrics ==
    /\ pc = "idle"
    /\ \E n \in 0..MaxJudgments :
           \E facet_results \in [1..n -> MetricsJudgments] :
               /\ args' = facet_results
               /\ ret' = <<_calculate_confidence_metrics(facet_results)>>
    /\ pc' = "returned"
    /\ op' = "_calculate_confidence_metrics"
    /\ UNCHANGED <<conversations, facets, model_names, facet_batch_size, task,
                   done_order, loaderVars, judgeVars, clock, resultVars, error,
                   managerVars>>

AnalyzeFacetConsistency ==
    /\ pc = "idle"
    /\ \E n \in 0..MaxJudgments :
           \E facet_results \in [1..n -> ConsistencyJudgments] :
               /\ args' = facet_results
               /\ ret' = <<analyze_facet_consistency(facet_results)>>
    /\ pc' = "returned"
    /\ op' = "analyze_facet_consistency"
    /\ UNCHANGED <<conversations, facets, model_names, facet_batch_size, task,
                   done_order, loaderVars, judgeVars, clock, resultVars, error,
                   managerVars>>

NextMetrics == CalculateConfidenceMetrics \/ AnalyzeFacetConsistency

SpecMetrics == InitCompare /\ [][NextMetrics]_vars

\* SpecStatistics: one call of _calculate_facet_statistics on at most
\* MaxEvaluations evaluations, of which only facet_scores is read, and a list
\* of requested facets; "clarity" is a facet no evaluation has.
MaxRequested == 2

StatisticsEvaluations ==
    {[facet_scores |-> fm] :
        fm \in UNION {[fs -> {EvaluationResult(f, sc, c, "parsed") :
                                 f \in fs, sc \in {MinScore, MaxScore},
                                 c \in {0, 100}}] : fs \in SUBSET Facets}}

CalculateFacetStatistics ==
    /\ pc = "idle"
    /\ \E n \in 0..MaxEvaluations :
           \E evaluations \in [1..n -> StatisticsEvaluations],
              facet_list \in SeqsUpTo(Facets \cup {"clarity"}, MaxRequested) :
               /\ \A k \in 1..n : \A f \in DOMAIN evaluations[k].facet_scores :
                      evaluations[k].facet_scores[f].facet = f
               /\ args' = <<evaluations, facet_list>>
               /\ ret' = <<_calculate_facet_statistics(evaluations, facet_list)>>
    /\ pc' = "returned"
    /\ op' = "_calculate_facet_statistics"
    /\ UNCHANGED <<conversations, facets, model_names, facet_batch_size, task,
                   done_order, loaderVars, judgeVars, clock, resultVars, error,
                   managerVars>>

NextStatistics == CalculateFacetStatistics

SpecStatistics == InitCompare /\ [][NextStatistics]_vars

\* SpecClean: one call of clean_conversation_text on a text of at most
\* MaxTextLen characters: a space, two word characters, a terminator, a kept
\* punctuation mark and a special character.  The two quote replacements of
\* the cleaner leave every such text as it is.
CleanConversationText ==
    /\ pc = "idle"
    /\ \E text \in SeqsUpTo({" ", "a", "b", ".", ",", "#"}, MaxTextLen) :
           /\ args' = text
           /\ ret' = <<clean_conversation_text(text)>>
    /\ pc' = "returned"
    /\ op' = "clean_conversation_text"
    /\ UNCHANGED <<conversations, facets, model_names, facet_batch_size, task,
                   done_order, loaderVars, judgeVars, clock, resultVars, error,
                   managerVars>>

SpecClean == InitCompare /\ [][CleanConversationText]_vars

\* ------------------------------------------------------------------ claims
FanOut == op \in {"batch_evaluate", "evaluate_with_multiple_models"}
Finished(i) == task[i].stage \in {"RECORD_ASSEMBLED", "FAILED"}

\* C1: when batch_evaluate returns, its evaluations list has one entry per
\* input conversation and entry i is the evaluation made by the task of
\* conversations[i]: it carries that conversation's cleaned text and the id
\* batch_conv_i, whatever the order in which the tasks finished.
C1_BatchPreservesInputOrder ==
    batch_result # <<>> =>
        LET evaluations == batch_result[1].evaluations
        IN  /\ Len(evaluations) = Len(conversations)
            /\ \A i \in 1..Len(evaluations) :
                   /\ evaluations[i] = task[i].evaluation[1]
                   /\ evaluations[i].conversation_text =
                          clean_conversation_text(conversations[i])
                   /\ evaluations[i].conversation_id = <<"batch_conv", i - 1>>

\* a batch of two different conversations returned, the second finished first
C1_Witness ==
    /\ batch_result # <<>>
    /\ Len(conversations) = 2
    /\ conversations[1] # conversations[2]
    /\ done_order = <<2, 1>>

\* C2: batch_evaluate of a non-empty batch does not abort when the evaluation
\* of one conversation fails: it never ends by raising, and once a
\* conversation has failed and the operation is over it has returned a result
\* with one entry per input conversation.
C2_BatchSurvivesFailedConversation ==
    (op = "batch_evaluate" /\ conversations # <<>>) =>
        /\ pc # "raised"
        /\ (pc = "returned" => Len(batch_result[1].evaluations) = Len(conversations))

\* C3: in the two fan-out operations every task exists before the operation
\* awaits, and the operation is over (returned or raised) only when every task
\* has completed or failed.
C3_FanInBarrier ==
    FanOut =>
        /\ (pc = "awaiting" =>
               Len(task) = IF op = "batch_evaluate" THEN Len(conversations)
                           ELSE Len(model_names))
        /\ (pc \in {"returned", "raised"} => \A i \in Tasks : Finished(i))

\* C4: once batch_evaluate awaits its tasks, every task eventually has its
\* record assembled unless its own load_model call raised or hangs: a sibling's
\* load that hangs or raises keeps no other task from finishing.
C4_SiblingsIsolated ==
    (op = "batch_evaluate" /\ pc = "awaiting") ~>
        (\A i \in Tasks : \/ task[i].stage = "RECORD_ASSEMBLED"
                          \/ task[i].load_future = "raised"
                          \/ (loader = i /\ loader_hung))

\* C5: evaluate_conversation called with an empty facet list never acquires a
\* model, never calls the judgment capability and never returns an evaluation.
C5_EmptyFacetsRejected ==
    (op = "evaluate_conversation" /\ facets = <<>>) =>
        /\ pc # "returned"
        /\ \A i \in Tasks : /\ task[i].load_future = "none"
                            /\ task[i].batch_no = 0
                            /\ task[i].evaluation = <<>>

\* C6: batch_evaluate called with an empty conversation list fails with the
\* invalid-input error, not with an error of the statistics computation.
C6_EmptyBatchRejected ==
    (op = "batch_evaluate" /\ conversations = <<>>) =>
        /\ pc = "raised"
        /\ error = "InvalidInput"
        /\ task = <<>>

\* C7: compare_evaluations of fewer than 2 evaluations yields the explicit
\* condition "Need at least 2 evaluations to compare" and none of the maps of
\* a comparison.
C7_InsufficientModels ==
    (ret # <<>> /\ Cardinality(DOMAIN args) < 2) =>
        /\ DOMAIN ret[1] = {"error"}
        /\ ret[1].error = "Need at least 2 evaluations to compare"

\* compare_evaluations returned for one model that scored a facet
C7_Witness ==
    /\ ret # <<>>
    /\ Cardinality(DOMAIN args) = 1
    /\ \E m \in DOMAIN args : DOMAIN args[m].facet_scores # {}

\* C8: a task whose load_model call raised has no evaluation and made no
\* judgment call, and the caller of evaluate_conversation gets the error
\* raised; a caller that got an evaluation back (degraded or not) had its
\* model acquired.
C8_AcquisitionFailurePropagates ==
    \A i \in Tasks :
        /\ task[i].load_future = "raised" =>
               /\ task[i].evaluation = <<>>
               /\ task[i].batch_no = 0
               /\ task[i].generated = <<>>
               /\ pc # "returned"
        /\ task[i].stage = "FAILED" => (pc = "raised" /\ error = "ModelLoadError")
        /\ pc = "returned" =>
               (task[i].evaluation # <<>> /\ task[i].load_future = "ok")

\* load_model raised and the caller has the error
C8_Witness ==
    /\ pc = "raised"
    /\ \E i \in Tasks : task[i].stage = "FAILED" /\ task[i].load_future = "raised"

\* what generate did for the sub-batch whose results are in judge_future
LastGenerated(i) ==
    SubSeq(task[i].generated,
           Len(task[i].generated) - Len(CurrentBatch(i)) + 1,
           Len(task[i].generated))

\* C9: a judgment call returns one judgment per facet of its sub-batch, in the
\* order of the sub-batch; a facet whose generation raised has score 3,
\* confidence 0.0 and the error reasoning, every other facet has the
\* confidence of its generation, a parsed reasoning and, when the generated
\* digit is in 1..5, that digit as score.
C9_FacetFailureIsolated ==
    \A i \in Tasks :
        task[i].judge_future # <<>> =>
            LET batch == CurrentBatch(i)
                results == task[i].judge_future[1]
                outs == LastGenerated(i)
            IN  /\ Len(results) = Len(batch)
                /\ \A k \in 1..Len(batch) :
                       /\ results[k].facet = batch[k]
                       /\ outs[k].raises =>
                              /\ results[k].score = 3
                              /\ results[k].confidence = 0
                              /\ results[k].reasoning = "Error during evaluation"
                       /\ ~outs[k].raises =>
                              /\ results[k].confidence = outs[k].confidence
                              /\ results[k].reasoning # "Error during evaluation"
                              /\ (outs[k].digit \in 1..5 =>
                                      results[k].score = outs[k].digit)

\* a judgment call of two facets returned, the first generation having raised
\* and the second not
C9_Witness ==
    \E i \in Tasks :
        /\ task[i].judge_future # <<>>
        /\ Len(CurrentBatch(i)) = 2
        /\ LastGenerated(i)[1].raises
        /\ ~LastGenerated(i)[2].raises
        /\ task[i].judge_future[1][2].confidence > 0

\* C10: every score in the facet_scores of an evaluation is in 1..5.
C10_ScoresInRange ==
    \A i \in Tasks :
        task[i].evaluation # <<>> =>
            \A f \in DOMAIN task[i].evaluation[1].facet_scores :
                task[i].evaluation[1].facet_scores[f].score \in 1..5

\* an evaluation was assembled from a generation whose digit is below 1 and
\* one whose digit is above 5
C10_Witness ==
    \E i \in Tasks :
        /\ task[i].evaluation # <<>>
        /\ \E j, k \in 1..Len(task[i].generated) :
               /\ task[i].generated[j].digit = 0
               /\ task[i].generated[k].digit > 5
               /\ task[i].all_results[j].facet # task[i].all_results[k].facet

\* C11: for every judgment list with scores in 1..5, confidences in [0, 1] and
\* positive facet weights, each of the four fields of the ConfidenceMetrics
\* that _calculate_confidence_metrics returns lies in [0, 1].
InUnitInterval(x) == x[2] > 0 /\ FLeq(Frac(0, 1), x) /\ FLeq(x, Frac(1, 1))

C11_MetricsInUnitInterval ==
    (op = "_calculate_confidence_metrics" /\ pc = "returned") =>
        /\ InUnitInterval(ret[1].overall_confidence)
        /\ InUnitInterval(ret[1].model_confidence)
        /\ InUnitInterval(ret[1].consistency_score)
        /\ InUnitInterval(ret[1].uncertainty_estimate)

\* metrics of three judgments whose variance exceeds both normalisers (scores
\* 1, 5, 5 in one category) and whose confidences differ
C11_Witness ==
    /\ op = "_calculate_confidence_metrics" /\ pc = "returned"
    /\ Len(args) = 3
    /\ \E j, k \in 1..3 : args[j].confidence # args[k].confidence
    /\ FLeq(Frac(2, 1), Variance(Scores(args)))
    /\ ret[1].uncertainty_estimate = Frac(1, 1)

\* the call of calculate_weighted_score
WeightedCall == op = "calculate_weighted_score" /\ pc = "returned"

\* C12: calculate_weighted_score returns
\* sum(score * weight * confidence) / sum(weight * confidence) and, for weights
\* and confidences >= 0 of which one product is not zero, the result lies in
\* [min(scores), max(scores)].
C12_WeightedScoreWithinScores ==
    LET scores == Range(Scores(args[1]))
        products == [k \in 1..Len(args[1]) |->
                        WeightOf(args[2], args[1][k].facet) * args[1][k].confidence]
    IN  (WeightedCall /\ SumInts(products) > 0) =>
            /\ \E x \in scores : DLeq(DInt(x), ret[1])
            /\ \E x \in scores : DLeq(ret[1], DInt(x))

\* the scenario: grammar 5 at 0.9, clarity 4 at 0.8 and toxicity 1 at 0.95 under
\* the default weights 1.0, 1.3 and 2.0
ScenarioCall ==
    /\ WeightedCall
    /\ args[1] = <<EvaluationResult("grammar", 5, 90, "parsed"),
                   EvaluationResult("clarity", 4, 80, "parsed"),
                   EvaluationResult("toxicity", 1, 95, "parsed")>>
    /\ args[2] = <<>>

\* the float u is hundredths / 100 to two decimal places
RoundsTo(u, hundredths) ==
    /\ DLeq(Double(10 * hundredths - 5, 1000), u)
    /\ DLeq(u, Double(10 * hundredths + 5, 1000))

\* C13 as stated: for the scenario calculate_weighted_score returns
\* (5*1*0.9 + 4*1.3*0.8 + 1*2*0.95) / (1*0.9 + 1.3*0.8 + 2*0.95), which is
\* approximately 2.98.
C13_ScenarioIsAbout298 ==
    ScenarioCall =>
        /\ DNear(ret[1], 5 * 10 * 90 + 4 * 13 * 80 + 1 * 20 * 95, 10 * 90 + 13 * 80 + 20 * 95)
        /\ RoundsTo(ret[1], 298)

\* C13 as the code has it: for the scenario calculate_weighted_score returns
\* (5*1*0.9 + 4*1.3*0.8 + 1*2*0.95) / (1*0.9 + 1.3*0.8 + 2*0.95), which is
\* 10.56 / 3.84, approximately 2.75.
C13_ScenarioIsAbout275 ==
    ScenarioCall =>
        /\ DNear(ret[1], 5 * 10 * 90 + 4 * 13 * 80 + 1 * 20 * 95, 10 * 90 + 13 * 80 + 20 * 95)
        /\ RoundsTo(ret[1], 275)

\* the scenario has been computed and its result lies strictly between the
\* scores 2 and 3
C13_Witness ==
    /\ ScenarioCall
    /\ \A k \in 1..3 :
           WeightOf(args[2], args[1][k].facet) = FacetWeight(args[1][k].facet)
    /\ DLeq(DInt(2), ret[1]) /\ DLeq(ret[1], DInt(3))

FEq(x, y) == x[1] * y[2] = y[1] * x[2]

ConsistencyCall == op = "analyze_facet_consistency" /\ pc = "returned"
SameCategory(a, b) == _get_facet_category(a.facet) = _get_facet_category(b.facet)
AloneInCategory(results, k) ==
    \A j \in 1..Len(results) : j # k => ~SameCategory(results[j], results[k])

\* C14: analyze_facet_consistency returns exactly 1.0 for fewer than 2
\* judgments, and exactly 1.0 when the judgments of every category of 2 or more
\* members have one score; a judgment alone in its category counts in neither
\* the sum nor the number of categories of the average, so the result is that
\* of the list without it.
C14_ConsistencyOfAgreement ==
    ConsistencyCall =>
        /\ Len(args) < 2 => ret[1] = Frac(1, 1)
        /\ (\A j, k \in 1..Len(args) :
               SameCategory(args[j], args[k]) => args[j].score = args[k].score)
               => FEq(ret[1], Frac(1, 1))
        /\ \A k \in 1..Len(args) :
               AloneInCategory(args, k) =>
                   FEq(ret[1], analyze_facet_consistency(
                                   SubSeq(args, 1, k - 1) \o SubSeq(args, k + 1, Len(args))))

\* three judgments: two of one category with one score, the third alone in its
\* category with another score, and a consistency of 1.0
C14_Witness ==
    /\ ConsistencyCall
    /\ Len(args) = 3
    /\ \E j, k \in 1..3 :
           /\ j # k /\ SameCategory(args[j], args[k]) /\ args[j].score = args[k].score
           /\ \E l \in 1..3 : AloneInCategory(args, l) /\ args[l].score # args[j].score
    /\ FEq(ret[1], Frac(1, 1))

MetricsCall == op = "_calculate_confidence_metrics" /\ pc = "returned"

\* sum of (s_j - s_k)^2 over the pairs j < k: len(scores)^2 times the
\* population variance
PairwiseSquares(scores) ==
    SumInts([j \in 1..Len(scores) |->
                SumInts([k \in 1..Len(scores) |->
                            IF j < k THEN (scores[j] - scores[k]) * (scores[j] - scores[k])
                            ELSE 0])])

\* C15: for a judgment list that is not empty, uncertainty_estimate is
\* min(1, population variance of the scores / 2): 0.0 when all scores are the
\* same (a single judgment too) and 1.0 exactly when the variance is 2 or more.
C15_UncertaintyIsHalfVariance ==
    (MetricsCall /\ args # <<>>) =>
        LET n == Len(args)
            squares == PairwiseSquares(Scores(args))
            uncertainty == ret[1].uncertainty_estimate
        IN  /\ FEq(uncertainty, FMin(Frac(1, 1), Frac(squares, 2 * n * n)))
            /\ (\A j, k \in 1..n : args[j].score = args[k].score)
                   => FEq(uncertainty, Frac(0, 1))
            /\ FEq(uncertainty, Frac(1, 1)) <=> squares >= 2 * n * n

\* three judgments of scores that differ with a variance below 2, and an
\* uncertainty strictly between 0 and 1
C15_Witness ==
    /\ MetricsCall
    /\ Len(args) = 3
    /\ \E j, k \in 1..3 : args[j].score # args[k].score
    /\ PairwiseSquares(Scores(args)) < 2 * 3 * 3
    /\ ~FLeq(ret[1].uncertainty_estimate, Frac(0, 1))
    /\ ~FLeq(Frac(1, 1), ret[1].uncertainty_estimate)

\* C16: for an empty judgment list _calculate_confidence_metrics returns
\* exactly ConfidenceMetrics(overall_confidence 0.0, model_confidence 0.0,
\* consistency_score 0.0, uncertainty_estimate 1.0), and no error.
C16_EmptyListSentinel ==
    (MetricsCall /\ args = <<>>) =>
        /\ error = "none"
        /\ ret = <<[overall_confidence |-> Frac(0, 1), model_confidence |-> Frac(0, 1),
                   consistency_score |-> Frac(0, 1), uncertainty_estimate |-> Frac(1, 1)]>>

\* the metrics of the empty list have been returned: no confidence, no
\* consistency and the highest uncertainty
C16_Witness ==
    /\ MetricsCall
    /\ Len(args) = 0
    /\ ret[1].consistency_score = Frac(0, 1)
    /\ ret[1].uncertainty_estimate = Frac(1, 1)

\* the call of compare_evaluations on two evaluations or more, and the models
\* whose evaluation has a judgment of the facet f
ComparedCall ==
    op = "compare_evaluations" /\ pc = "returned" /\ Cardinality(DOMAIN args) >= 2
ScoredBy(f) == {m \in DOMAIN args : f \in DOMAIN args[m].facet_scores}
ScoreOf(m, f) == args[m].facet_scores[f].score
ConfidenceOf(m, f) == args[m].facet_scores[f].confidence
Spread(f) ==
    LET scores == {ScoreOf(m, f) : m \in ScoredBy(f)}
    IN  (CHOOSE x \in scores : \A y \in scores : y <= x)
        - (CHOOSE x \in scores : \A y \in scores : y >= x)

\* C17: for every facet that at least 2 models scored, the agreement of
\* compare_evaluations is max(0, 1 - (max(scores) - min(scores)) / 4): 1.0 when
\* the models give one score and 0.0 when the scores are 4 apart.
C17_AgreementFromSpread ==
    ComparedCall =>
        \A f \in Facets :
            Cardinality(ScoredBy(f)) >= 2 =>
                /\ f \in DOMAIN ret[1].model_agreements
                /\ LET agreement == ret[1].model_agreements[f]
                   IN  /\ agreement[2] > 0
                       /\ IF Spread(f) >= 4 THEN FEq(agreement, Frac(0, 1))
                          ELSE FEq(agreement, Frac(4 - Spread(f), 4))
                       /\ Spread(f) = 0 => FEq(agreement, Frac(1, 1))
                       /\ Spread(f) = 4 => FEq(agreement, Frac(0, 1))

\* a comparison in which the models agree on one facet (agreement 1.0) and are
\* 4 apart on another (agreement 0.0)
C17_Witness ==
    /\ ComparedCall
    /\ \E f, g \in Facets :
           /\ Cardinality(ScoredBy(f)) >= 2 /\ Spread(f) = 0
           /\ Cardinality(ScoredBy(g)) >= 2 /\ Spread(g) = 4
           /\ FEq(ret[1].model_agreements[f], Frac(1, 1))
           /\ FEq(ret[1].model_agreements[g], Frac(0, 1))

\* two models scored f, one 5 with confidence 0.9 and the other 1 with 0.1
ScoredFiveAndOne(f) ==
    /\ Cardinality(ScoredBy(f)) = 2
    /\ \E m, o \in ScoredBy(f) :
           /\ ScoreOf(m, f) = 5 /\ ConfidenceOf(m, f) = 90
           /\ ScoreOf(o, f) = 1 /\ ConfidenceOf(o, f) = 10

\* the consensus of the example as Python computes it, in either order of the
\* two models, is the float 4.6
FiveAndOneAsFloat ==
    /\ consensus_as_float(<<5, 1>>, <<90, 10>>) = Double(46, 10)
    /\ consensus_as_float(<<1, 5>>, <<10, 90>>) = Double(46, 10)

\* C18: the consensus score of a compared facet is the mean of the models'
\* scores weighted by their confidences, and the plain mean when all these
\* confidences are zero, so nothing is divided by zero; scores 5 and 1 with
\* confidences 0.9 and 0.1 give 4.6, in floats too.
C18_ConsensusIsWeightedMean ==
    ComparedCall =>
        /\ error = "none"
        /\ \A f \in DOMAIN ret[1].consensus_scores :
               LET consensus == ret[1].consensus_scores[f]
                   ms == ScoredBy(f)
                   weight_sum == SumOver([m \in ms |-> ConfidenceOf(m, f)], ms)
                   weighted_sum ==
                       SumOver([m \in ms |-> ScoreOf(m, f) * ConfidenceOf(m, f)], ms)
                   score_sum == SumOver([m \in ms |-> ScoreOf(m, f)], ms)
               IN  /\ consensus[2] > 0
                   /\ weight_sum > 0 => consensus[1] * weight_sum = weighted_sum * consensus[2]
                   /\ weight_sum = 0 =>
                          consensus[1] * Cardinality(ms) = score_sum * consensus[2]
                   /\ ScoredFiveAndOne(f) =>
                          /\ FEq(consensus, Frac(46, 10))
                          /\ FiveAndOneAsFloat

\* a comparison with the facet of the example (5 at 0.9 and 1 at 0.1, consensus
\* 4.6) and a facet whose confidences are all zero and whose consensus is the
\* plain mean 3 of 1 and 5
C18_Witness ==
    /\ ComparedCall
    /\ \E f, g \in DOMAIN ret[1].consensus_scores :
           /\ ScoredFiveAndOne(f)
           /\ FEq(ret[1].consensus_scores[f], Frac(46, 10))
           /\ \A m \in ScoredBy(g) : ConfidenceOf(m, g) = 0
           /\ Spread(g) = 4
           /\ FEq(ret[1].consensus_scores[g], Frac(3, 1))

\* C19: when compare_evaluations has 2 evaluations or more, a facet that fewer
\* than 2 models scored is in none of model_agreements, score_differences and
\* consensus_scores, a facet that 2 models or more scored is in all three, and
\* the three maps have the same keys.
C19_DerivedMapsShareKeys ==
    ComparedCall =>
        /\ \A f \in Facets :
               /\ Cardinality(ScoredBy(f)) < 2 =>
                      /\ f \notin DOMAIN ret[1].model_agreements
                      /\ f \notin DOMAIN ret[1].score_differences
                      /\ f \notin DOMAIN ret[1].consensus_scores
               /\ Cardinality(ScoredBy(f)) >= 2 =>
                      /\ f \in DOMAIN ret[1].model_agreements
                      /\ f \in DOMAIN ret[1].score_differences
                      /\ f \in DOMAIN ret[1].consensus_scores
        /\ DOMAIN ret[1].model_agreements = DOMAIN ret[1].score_differences
        /\ DOMAIN ret[1].score_differences = DOMAIN ret[1].consensus_scores

\* a comparison of evaluations of which one only has a judgment of one facet,
\* left out of the maps, while another facet has two and is in them
C19_Witness ==
    /\ ComparedCall
    /\ \E f, g \in Facets :
           /\ Cardinality(ScoredBy(f)) = 1
           /\ Cardinality(ScoredBy(g)) >= 2
           /\ f \notin DOMAIN ret[1].consensus_scores
           /\ g \in DOMAIN ret[1].consensus_scores

\* the call of _calculate_facet_statistics and the positions of the
\* evaluations that have a judgment of the facet f
StatisticsCall == op = "_calculate_facet_statistics" /\ pc = "returned"
Containing(f) == {k \in 1..Len(args[1]) : f \in DOMAIN args[1][k].facet_scores}
ScoreIn(k, f) == args[1][k].facet_scores[f].score

\* C20: facet_statistics has a key only for a requested facet that some
\* evaluation has; its evaluation_count is the number of evaluations that have
\* the facet, never more than the number of evaluations, and its mean, minimum,
\* maximum and deviation are those of the scores of these evaluations alone.
C20_StatisticsOverPresentOnly ==
    StatisticsCall =>
        \A f \in DOMAIN ret[1] :
            LET stats == ret[1][f]
                ks == Containing(f)
                count == Cardinality(ks)
                squares ==
                    SumOver([j \in ks |->
                                SumOver([k \in ks |->
                                            IF j < k
                                            THEN (ScoreIn(j, f) - ScoreIn(k, f))
                                                 * (ScoreIn(j, f) - ScoreIn(k, f))
                                            ELSE 0], ks)], ks)
            IN  /\ f \in Range(args[2])
                /\ ks # {}
                /\ stats.evaluation_count = count
                /\ stats.evaluation_count <= Len(args[1])
                /\ FEq(stats.mean_score, Frac(SumOver([k \in ks |-> ScoreIn(k, f)], ks), count))
                /\ \E k \in ks : stats.min_score = ScoreIn(k, f)
                /\ \A k \in ks : stats.min_score <= ScoreIn(k, f)
                /\ \E k \in ks : stats.max_score = ScoreIn(k, f)
                /\ \A k \in ks : stats.max_score >= ScoreIn(k, f)
                /\ FEq(stats.score_variance, Frac(squares, count * count))

\* statistics of two evaluations for a requested facet that only one of them
\* has (count 1, mean 5), while the other requested facet is in no evaluation
\* and a facet that is not requested is in one
C20_Witness ==
    /\ StatisticsCall
    /\ Len(args[1]) = 2
    /\ \E f, g \in Range(args[2]) :
           /\ Cardinality(Containing(f)) = 1
           /\ Containing(g) = {}
           /\ DOMAIN ret[1] = {f}
           /\ ret[1][f].evaluation_count = 1
           /\ FEq(ret[1][f].mean_score, Frac(5, 1))
    /\ \E h \in Facets \ Range(args[2]) : Containing(h) # {}

\* C21: cleaning is idempotent and total: cleaning a cleaned text gives the
\* cleaned text again, no call raises, and the empty text gives the empty text.
C21_CleaningIdempotent ==
    (op = "clean_conversation_text" /\ pc = "returned") =>
        /\ error = "none"
        /\ args = <<>> => ret[1] = <<>>
        /\ clean_conversation_text(ret[1]) = ret[1]

\* an evaluation that has derived its id and has not finished
InFlight(i) == task[i].stage \in {"TEXT_PREPARED", "MODEL_ACQUIRED"}

\* C22: the ids evaluate_conversation derives when the caller gives none are
\* unique within the process: two evaluations of one
\* evaluate_with_multiple_models call that are in flight at the same time have
\* different conversation_ids.
C22_DerivedIdsUnique ==
    op = "evaluate_with_multiple_models" =>
        \A i, j \in Tasks :
            (i # j /\ InFlight(i) /\ InFlight(j)) =>
                task[i].conversation_id # task[j].conversation_id

\* the judgments kept in a facet_scores dictionary, as a list
StoredJudgments(facet_scores) ==
    LET keys == CHOOSE q \in [1..Cardinality(DOMAIN facet_scores) -> DOMAIN facet_scores] :
                    \A j, k \in DOMAIN q : j # k => q[j] # q[k]
    IN  [k \in DOMAIN keys |-> facet_scores[keys[k]]]

\* C23: the confidence metrics of an evaluation are those of the judgments
\* stored in its facet_scores, one per distinct facet: the judgment of a facet
\* requested twice counts once in each of the four metrics.
C23_MetricsOverStoredJudgments ==
    \A i \in Tasks :
        task[i].evaluation # <<>> =>
            LET metrics == task[i].evaluation[1].confidence_metrics
                merged == _calculate_confidence_metrics(
                              StoredJudgments(task[i].evaluation[1].facet_scores))
            IN  /\ FEq(metrics.overall_confidence, merged.overall_confidence)
                /\ FEq(metrics.model_confidence, merged.model_confidence)
                /\ FEq(metrics.consistency_score, merged.consistency_score)
                /\ FEq(metrics.uncertainty_estimate, merged.uncertainty_estimate)

\* the position of the last request of a facet
LastRequest(f) ==
    CHOOSE k \in 1..Len(facets) :
        facets[k] = f /\ \A j \in (k + 1)..Len(facets) : facets[j] # f

\* C24: judgments are merged by facet key, last write wins: whatever the
\* requested facet list, duplicates included, an evaluation whose model was
\* acquired does not fail, the keys of facet_scores are the distinct requested
\* facets, and the judgment stored for a facet is the one returned for its
\* last request.
C24_MergeLastWriteWins ==
    op = "evaluate_conversation" =>
        \A i \in Tasks :
            /\ task[i].stage = "FAILED" => task[i].load_future = "raised"
            /\ pc = "raised" => task[i].load_future = "raised"
            /\ task[i].evaluation # <<>> =>
                   LET facet_scores == task[i].evaluation[1].facet_scores
                       returned == ModelEvaluateConversation(facets, task[i].generated)
                   IN  /\ pc = "returned"
                       /\ Len(task[i].generated) = Len(facets)
                       /\ DOMAIN facet_scores = Range(facets)
                       /\ \A f \in Range(facets) :
                              facet_scores[f] = returned[LastRequest(f)]

\* an evaluation of a facet requested twice, in two sub-batches, whose two
\* judgments differ: the second one is stored
C24_Witness ==
    /\ op = "evaluate_conversation"
    /\ pc = "returned"
    /\ facet_batch_size = 1
    /\ Len(facets) = 2
    /\ facets[1] = facets[2]
    /\ task[1].evaluation # <<>>
    /\ Len(task[1].all_results) = 2
    /\ task[1].all_results[1].score # task[1].all_results[2].score
    /\ task[1].evaluation[1].facet_scores[facets[1]] = task[1].all_results[2]

RECURSIVE Concatenation(_)
Concatenation(lists) ==
    IF lists = <<>> THEN <<>> ELSE Head(lists) \o Concatenation(Tail(lists))

\* ceil(n / b): the least number of groups of at most b that hold n
CeilDiv(n, b) == CHOOSE q \in 0..n : q * b >= n /\ (q = 0 \/ (q - 1) * b < n)

\* C25: for n requested facets and sub-batch size b the judgment capability is
\* called ceil(n / b) times, once per sub-batch: every call receives between
\* one and b facets, the calls made so far cover a prefix of the requested
\* list in order, and those of a finished evaluation cover exactly the list.
C25_OneCallPerSubBatch ==
    \A i \in Tasks :
        LET calls == task[i].submitted
            covered == Concatenation(calls)
        IN  /\ \A k \in 1..Len(calls) :
                   Len(calls[k]) >= 1 /\ Len(calls[k]) <= facet_batch_size
            /\ Len(covered) <= Len(facets)
            /\ covered = SubSeq(facets, 1, Len(covered))
            /\ Len(calls) <= CeilDiv(Len(facets), facet_batch_size)
            /\ task[i].evaluation # <<>> =>
                   /\ Len(calls) = CeilDiv(Len(facets), facet_batch_size)
                   /\ covered = facets
                   /\ Len(task[i].generated) = Len(facets)

\* a finished evaluation of two facets with sub-batch size 2: one judgment
\* call that received both facets
C25_Witness ==
    /\ facet_batch_size = 2
    /\ Len(facets) = 2
    /\ task # <<>>
    /\ task[1].evaluation # <<>>
    /\ task[1].submitted = <<facets>>
    /\ Len(task[1].all_results) = 2

\* the stages of an evaluation, in order
Stages ==
    <<"START", "TEXT_PREPARED", "MODEL_ACQUIRED", "FACETS_JUDGED", "METRICS_COMPUTED",
      "RECORD_ASSEMBLED">>

Went(i, stage) == stage \in Range(task[i].path)

Occurrences(list, x) == Cardinality({k \in 1..Len(list) : list[k] = x})

\* an evaluation is where its stages say it is
StagesInOrder(i) ==
    /\ task[i].path = SubSeq(Stages, 1, Len(task[i].path))
    /\ (task[i].submitted # <<>> \/ Occurrences(judge_queue, i) > 0
            \/ i \in judge_running)
           => (Went(i, "MODEL_ACQUIRED") /\ task[i].load_future = "ok"
                  /\ task[i].model # None)
    /\ Went(i, "METRICS_COMPUTED") =>
           /\ task[i].batch_no = Len(FacetBatches(facets, facet_batch_size))
           /\ Len(task[i].generated) = Len(facets)
           /\ Len(task[i].all_results) = Len(facets)
           /\ task[i].judge_future = <<>>
           /\ Occurrences(judge_queue, i) = 0
           /\ i \notin judge_running
    /\ Went(i, "RECORD_ASSEMBLED") <=> task[i].evaluation # <<>>
    /\ Len(task[i].evaluation) <= 1
    /\ Occurrences(done_order, i) =
           (IF Went(i, "RECORD_ASSEMBLED") \/ task[i].stage = "FAILED" THEN 1 ELSE 0)

\* an evaluation only adds stages, and does nothing after its record
StagesForward(i) ==
    /\ Len(task'[i].path) >= Len(task[i].path)
    /\ SubSeq(task'[i].path, 1, Len(task[i].path)) = task[i].path
    /\ Went(i, "RECORD_ASSEMBLED") => task'[i] = task[i]

\* C26: one evaluate_conversation run goes through START, TEXT_PREPARED,
\* MODEL_ACQUIRED, FACETS_JUDGED, METRICS_COMPUTED, RECORD_ASSEMBLED in this
\* order, never back and never past a stage: no judgment call is issued
\* before the model is acquired, the metrics are computed only when every
\* sub-batch has returned, and the record is assembled once, as the last step.
C26_StagesLinear ==
    /\ [](\A i \in Tasks : StagesInOrder(i))
    /\ [][\A i \in Tasks : StagesForward(i)]_vars

\* an evaluation of two facets in two sub-batches that went through the six
\* stages and holds its record
C26_Witness ==
    /\ op = "evaluate_conversation"
    /\ facet_batch_size = 1
    /\ Len(facets) = 2
    /\ task[1].path = Stages
    /\ task[1].batch_no = 2
    /\ task[1].evaluation # <<>>
    /\ done_order = <<1>>

\* the ModelManager is at rest: no call is running or queued
AtRest == ~Busy /\ manager.queue = <<>>

\* current_model is None or the object cached under its name
CurrentCached ==
    \/ manager.current_model = NoModel
    \/ /\ manager.current_model.model_name \in DOMAIN manager.models
       /\ manager.models[manager.current_model.model_name] = manager.current_model

\* C27: the model manager serializes the structural changes of its cache: a
\* load_model running for an evaluation (through load_model_async) and an
\* unload_model issued meanwhile do not interleave, so load_model never meets
\* a KeyError at its read after a successful membership check, and once both
\* are over current_model is None or the object cached under its name.
C27_LoadUnloadSerialized ==
    history.called \subseteq {"load_model_async", "unload_model"} =>
        /\ \A k \in 1..Len(history.results) :
               history.results[k].result.raised # "KeyError"
        /\ AtRest => CurrentCached

HandlesOf(model_name) == {h \in history.handles : h.model_name = model_name}

\* C28: whatever the number of concurrent load_model_async calls, with no
\* other call on the ModelManager: a model is constructed and loaded at most
\* once, exactly once as soon as a call for it returned, and every call that
\* returns gives the one object cached under the name.
C28_LoadedOnce ==
    history.called \subseteq {"load_model_async"} =>
        /\ \A model_name \in ModelNames : Cardinality(HandlesOf(model_name)) <= 1
        /\ \A k \in 1..Len(history.results) :
               LET r == history.results[k]
               IN  r.result.raised = "none" =>
                       /\ r.model_name \in DOMAIN manager.models
                       /\ r.result.value = manager.models[r.model_name]
                       /\ HandlesOf(r.model_name) = {r.result.value}

\* three load_model_async calls for one model, queued while another was
\* running, have all returned the one object made
C28_Witness ==
    /\ history.called = {"load_model_async"}
    /\ history.overlapped
    /\ AtRest
    /\ Len(history.results) = 3
    /\ \A k \in 1..3 : history.results[k].result = Returns(Handle("mistral", 1))
    /\ history.handles = {Handle("mistral", 1)}

\* C29: after calls of load_model, get_model and unload_model that each ran
\* to completion before the next began, current_model is None or the very
\* object cached under its name; and unload_model(X) removed X from the
\* cache, cleared current_model if and only if it was X, and left every other
\* entry as it was.
C29_CurrentModelCached ==
    (~history.overlapped /\ AtRest) =>
        /\ CurrentCached
        /\ \A k \in 1..Len(history.results) :
               LET r == history.results[k]
               IN  r.call = "unload_model" =>
                       /\ r.result = Returns(NoModel)
                       /\ r.models = Without(r.before.models, r.model_name)
                       /\ r.current_model =
                              (IF r.before.current_model.model_name = r.model_name
                               THEN NoModel ELSE r.before.current_model)

\* two models were loaded one after the other and the first one was then
\* unloaded: the second is still cached and is still current_model
C29_Witness ==
    /\ ~history.overlapped
    /\ AtRest
    /\ Len(history.results) = 3
    /\ history.results[3].call = "unload_model"
    /\ history.results[3].model_name = "llama"
    /\ "llama" \in DOMAIN history.results[3].before.models
    /\ manager.current_model = Handle("mistral", 2)
    /\ DOMAIN manager.models = {"mistral"}

\* every load_model call made so far has returned or may still return
LoadsReturn == ~loader_hung /\ \A i \in Tasks : task[i].load_future # "raised"

\* C30: batch_evaluate ends: when the loader thread and the judgment threads
\* keep running and every load_model call and every judgment call returns, a
\* batch_evaluate that is waiting for its evaluations gets the assembled
\* record of each of them and returns.
C30_BatchEvaluateTerminates ==
    (op = "batch_evaluate" /\ pc = "awaiting")
        ~> \/ ~LoadsReturn
           \/ /\ pc = "returned"
              /\ batch_result # <<>>
              /\ \A i \in Tasks : task[i].stage = "RECORD_ASSEMBLED"

\* a batch_evaluate of two conversations and one facet has returned; the two
\* evaluations waited for the one loader thread and the second one finished
\* first
C30_Witness ==
    /\ op = "batch_evaluate"
    /\ pc = "returned"
    /\ Len(task) = 2
    /\ facets # <<>>
    /\ LoadsReturn
    /\ done_order = <<2, 1>>
    /\ batch_result # <<>>
    /\ \A i \in Tasks : task[i].evaluation # <<>> /\ Len(task[i].submitted) = 1

====
